---- MODULE Spec2Model ----
(***************************************************************************)
(* Dual-store memory coordinator of LLM-Memory-Agent.                      *)
(*                                                                         *)
(*   rows  : the SQLite table "memories"      (sqlite_store.py)            *)
(*   vec   : the ChromaDB collection          (chroma_store.py)            *)
(*   MemoryStorage (memory_storage.py) and MemoryAgent.reset_user_memories *)
(*   (app.py) issue one store call after the other; every store call is    *)
(*   one atomic step and calls of different request handlers interleave.   *)
(*                                                                         *)
(* A mapping (Python dict) is a set of <<key, value>> pairs with distinct  *)
(* keys; None and {} are both the empty set ("metadata or {}").            *)
(* host is the Python process: os.environ, the class attributes of Config   *)
(* (config.py) and the provider FactExtractor (fact_extractor.py) calls.    *)
(* clock is the second CURRENT_TIMESTAMP reads; the coordinator calls       *)
(* modelled here all fall into one second, so rows tie on created_at; the  *)
(* clock advances between the direct calls on the metadata store.          *)
(***************************************************************************)
EXTENDS Naturals, Integers, Sequences, FiniteSets, TLC

\* ------------------------------------------------------------------ bounds
\* number of memory IDs uuid4 may hand out to one caller at a time
MaxIds == 3
\* number of memory IDs uuid4 may hand out to racing handlers
MaxRacingIds == 2
\* largest n passed to retrieve_memories
MaxN == 2
\* number of calls recorded in a sequential history
MaxCalls == 4
\* largest number of facts in one add_memories_batch / process_message add
MaxFacts == 2
\* number of memory IDs a direct caller of one store passes
MaxStoreIds == 2
\* last second CURRENT_TIMESTAMP reaches while a store is called directly
MaxClock == 1
\* largest number of items in a JSON array the provider replies with
MaxReplyItems == 2
\* the largest limit handed to get_user_memories
MaxLimit == 1

\* ------------------------------------------------------------- input sets
Procs == {"h1", "h2"}
\* the handler a caller that waits for each call to return goes through
SerialCaller == "h1"
Users == {"u1", "u2"}
Shram == "User uses Shram"
Magnet == "User uses Magnet"
Facts == {Shram, Magnet}
\* texts of concurrent handlers: with equal texts every distance ties, so a
\* query may return its matches in any order
RacingFacts == {Shram}
NoUser == "none"
NoFact == "none"

\* the user a direct caller of a store passes, and the metadata it passes to
\* the vector store (the metadata store is called with metadata None)
StoreUser == "u1"
StoreMetas == {{}, {<<"id", 1>>}}
\* the updates mappings passed to update_memory: none, content, metadata,
\* both, and a column other than the two
UpdateChoices ==
    {{}} \cup {{<<"content", f>>} : f \in Facts}
         \cup {{<<"metadata", {}>>}}
         \cup {{<<"content", Magnet>>, <<"metadata", {}>>}}
         \cup {{<<"is_deleted", FALSE>>}}

\* caller-supplied metadata: None, or a mapping holding the key "id" whose
\* value is a memory ID some earlier add returned
MetaChoices(known) == {{}} \cup {{<<"id", k>>} : k \in known}

VARIABLES rows, vec, nextId, clock, pc, loc, failed, hist, mode, deletedOK,
          host

vars == <<rows, vec, nextId, clock, pc, loc, failed, hist, mode, deletedOK,
          host>>

EmptyMap == [i \in {} |-> i]

Min(a, b) == IF a < b THEN a ELSE b

\* ------------------------------------------------------ embedding service
\* generate_embedding: a fixed vector per text; vectors are points on a
\* line and the distance of the collection is their absolute difference
generate_embedding(fact) == IF fact = Shram THEN 0 ELSE 2

Distance(a, b) == IF a < b THEN b - a ELSE a - b

\* ---------------------------------------------------- SQLiteMetadataStore
\* the insert is never committed
sqlite_add_memory_uncommitted(r, memory_id, user_id, content, metadata, now) ==
    r

\* _dict_to_json / _json_to_dict: the metadata column holds the JSON text of
\* the mapping, not the mapping
dict_to_json(data) == [json |-> data]

json_to_dict(text) == text.json

\* "INSERT OR REPLACE": a row with the same id is overwritten
sqlite_add_memory_replacing(r, memory_id, user_id, content, metadata, now) ==
    (memory_id :> [id |-> memory_id, user_id |-> user_id, content |-> content,
                   is_deleted |-> FALSE, created_at |-> now, updated_at |-> now,
                   metadata |-> dict_to_json(metadata)]) @@ r

\* id TEXT PRIMARY KEY: the INSERT of an id that already has a row raises
sqlite_add_memory_raises(r, memory_id) == memory_id \in DOMAIN r

\* INSERT INTO memories (id, user_id, content, metadata) VALUES (?, ?, ?, ?)
\* with metadata_json = _dict_to_json(metadata or {}); a rejected INSERT
\* writes nothing
sqlite_add_memory(r, memory_id, user_id, content, metadata, now) ==
    IF sqlite_add_memory_raises(r, memory_id) THEN r
    ELSE (memory_id :> [id |-> memory_id, user_id |-> user_id,
                        content |-> content, is_deleted |-> FALSE,
                        created_at |-> now, updated_at |-> now,
                        metadata |-> dict_to_json(metadata)]) @@ r

\* the update touches updated_at only and leaves is_deleted as it was
sqlite_delete_memory_unmarked(r, memory_id, now) ==
    [i \in DOMAIN r |-> IF i = memory_id
                        THEN [r[i] EXCEPT !.updated_at = now]
                        ELSE r[i]]

\* the row is removed from the table
sqlite_delete_memory_physical(r, memory_id, now) ==
    [i \in DOMAIN r \ {memory_id} |-> r[i]]

\* an id without a row gets a row that is marked deleted
sqlite_delete_memory_upsert(r, memory_id, now) ==
    [i \in DOMAIN r \cup {memory_id} |->
        IF i \in DOMAIN r
        THEN IF i = memory_id
             THEN [r[i] EXCEPT !.is_deleted = TRUE, !.updated_at = now]
             ELSE r[i]
        ELSE [id |-> i, user_id |-> StoreUser, content |-> NoFact,
              is_deleted |-> TRUE, created_at |-> now, updated_at |-> now,
              metadata |-> dict_to_json({})]]

\* UPDATE memories SET is_deleted = 1, updated_at = CURRENT_TIMESTAMP WHERE id = ?
sqlite_delete_memory(r, memory_id, now) ==
    [i \in DOMAIN r |-> IF i = memory_id
                        THEN [r[i] EXCEPT !.is_deleted = TRUE, !.updated_at = now]
                        ELSE r[i]]

ActiveSet(r, user_id) ==
    {i \in DOMAIN r : r[i].user_id = user_id /\ ~r[i].is_deleted}

\* the orders "ORDER BY created_at DESC" allows for a set of rows: rows of
\* the same second come in either order
OrderedByCreatedDesc(r, S) ==
    {s \in [1..Cardinality(S) -> S] :
        /\ \A i, j \in 1..Cardinality(S) : i # j => s[i] # s[j]
        /\ \A i, j \in 1..Cardinality(S) :
              i < j => r[s[i]].created_at >= r[s[j]].created_at}

\* the select leaves out "is_deleted = 0"
get_active_memories_with_deleted(r, user_id) ==
    OrderedByCreatedDesc(r, {i \in DOMAIN r : r[i].user_id = user_id})

\* the select leaves out "user_id = ?"
get_active_memories_any_user(r, user_id) ==
    OrderedByCreatedDesc(r, {i \in DOMAIN r : ~r[i].is_deleted})

\* SELECT id ... WHERE user_id = ? AND is_deleted = 0 ORDER BY created_at DESC
get_active_memories(r, user_id) == OrderedByCreatedDesc(r, ActiveSet(r, user_id))

\* SELECT * ... WHERE user_id = ? AND is_deleted = 0 ORDER BY created_at DESC
get_user_memories(r, user_id) == OrderedByCreatedDesc(r, ActiveSet(r, user_id))

\* an Optional[int] argument: None is the empty set, the integer k is {k}
NoLimit == {}

Limits == {NoLimit} \cup {{k} : k \in 0..MaxLimit}

\* "if limit:" is False for None and for 0
LimitGiven(limit) == limit # NoLimit /\ limit # {0}

\* SQLiteMetadataStore.get_user_memories(user_id, limit): the select of
\* get_user_memories, with " LIMIT {limit}" appended "if limit"
get_user_memories_limit(r, user_id, limit) ==
    IF LimitGiven(limit)
    THEN LET k == CHOOSE n \in limit : TRUE
         IN {SubSeq(s, 1, Min(k, Len(s))) :
                s \in OrderedByCreatedDesc(r, ActiveSet(r, user_id))}
    ELSE OrderedByCreatedDesc(r, ActiveSet(r, user_id))

\* SQL NULL: MIN and MAX of no row
Null == "NULL"

MinOf(S) == CHOOSE x \in S : \A y \in S : x <= y

MaxOf(S) == CHOOSE x \in S : \A y \in S : x >= y

\* the statistics leave out "WHERE user_id = ?"
get_memory_stats_all_users(r, user_id) ==
    LET U == DOMAIN r
    IN [total_memories |-> Cardinality(U),
        active_memories |-> Cardinality({i \in U : r[i].is_deleted = FALSE}),
        deleted_memories |-> Cardinality({i \in U : r[i].is_deleted = TRUE}),
        first_memory |-> IF U = {} THEN Null
                         ELSE MinOf({r[i].created_at : i \in U}),
        last_memory |-> IF U = {} THEN Null
                        ELSE MaxOf({r[i].created_at : i \in U})]

\* SELECT COUNT(*), COUNT(CASE WHEN is_deleted = 0 THEN 1 END),
\* COUNT(CASE WHEN is_deleted = 1 THEN 1 END), MIN(created_at), MAX(created_at)
\* FROM memories WHERE user_id = ?
get_memory_stats(r, user_id) ==
    LET U == {i \in DOMAIN r : r[i].user_id = user_id}
    IN [total_memories |-> Cardinality(U),
        active_memories |-> Cardinality({i \in U : r[i].is_deleted = FALSE}),
        deleted_memories |-> Cardinality({i \in U : r[i].is_deleted = TRUE}),
        first_memory |-> IF U = {} THEN Null
                         ELSE MinOf({r[i].created_at : i \in U}),
        last_memory |-> IF U = {} THEN Null
                        ELSE MaxOf({r[i].created_at : i \in U})]

\* the value the updates mapping holds under key
UpdateValue(updates, key) == (CHOOSE pr \in updates : pr[1] = key)[2]

HasKey(updates, key) == \E pr \in updates : pr[1] = key

\* every key of updates is taken for a column
sqlite_update_memory_any_column(r, memory_id, updates, now) ==
    IF updates = {} THEN r
    ELSE [i \in DOMAIN r |->
            IF i # memory_id THEN r[i]
            ELSE [id |-> r[i].id, user_id |-> r[i].user_id,
                  created_at |-> r[i].created_at, updated_at |-> now,
                  content |-> IF HasKey(updates, "content")
                              THEN UpdateValue(updates, "content")
                              ELSE r[i].content,
                  metadata |-> IF HasKey(updates, "metadata")
                               THEN dict_to_json(UpdateValue(updates, "metadata"))
                               ELSE r[i].metadata,
                  is_deleted |-> IF HasKey(updates, "is_deleted")
                                 THEN UpdateValue(updates, "is_deleted")
                                 ELSE r[i].is_deleted]]

\* update_memory: only the keys 'content' and 'metadata' make a SET clause;
\* with one of them, UPDATE memories SET ..., updated_at = CURRENT_TIMESTAMP
\* WHERE id = ?; with none, no statement is run
sqlite_update_memory(r, memory_id, updates, now) ==
    IF ~(HasKey(updates, "content") \/ HasKey(updates, "metadata")) THEN r
    ELSE [i \in DOMAIN r |->
            IF i # memory_id THEN r[i]
            ELSE [r[i] EXCEPT
                    !.content = IF HasKey(updates, "content")
                                THEN UpdateValue(updates, "content") ELSE @,
                    !.metadata = IF HasKey(updates, "metadata")
                                 THEN dict_to_json(UpdateValue(updates, "metadata"))
                                 ELSE @,
                    !.updated_at = now]]

\* SELECT * FROM memories WHERE id = ?  (None when there is no row)
HasRow(r, memory_id) == memory_id \in DOMAIN r

get_memory_by_id(r, memory_id) == r[memory_id]

\* ------------------------------------------------------ ChromaVectorStore
\* memory_metadata = metadata or {}; memory_metadata["memory_id"] = memory_id
memory_metadata(metadata, memory_id) ==
    {pr \in metadata : pr[1] # "memory_id"} \cup {<<"memory_id", memory_id>>}

\* the caller's mapping after ChromaVectorStore.add_memory returned:
\* "metadata or {}" is the caller's own object unless that is None or empty,
\* and the assignment of "memory_id" is made on it
caller_metadata_after(metadata, memory_id) ==
    IF metadata = {} THEN metadata ELSE memory_metadata(metadata, memory_id)

\* collection.add(ids, embeddings, documents, metadatas)
chroma_add_memory(v, memory_id, embedding, content, metadata) ==
    IF memory_id \in DOMAIN v THEN v
    ELSE (memory_id :> [embedding |-> embedding, document |-> content,
                        metadata |-> memory_metadata(metadata, memory_id)]) @@ v

\* the entry stays in the collection
chroma_delete_memory_kept(v, memory_id) == v

\* collection.delete(ids=[memory_id])
chroma_delete_memory(v, memory_id) == [i \in DOMAIN v \ {memory_id} |-> v[i]]

\* the filter the coordinator builds: {"id": {"$in": active_ids}}
IdInFilter(active_ids) ==
    [key |-> "id", in |-> {active_ids[i] : i \in 1..Len(active_ids)}]

NoFilter == [key |-> "", in |-> {}]

\* _convert_filter_to_chroma_format: an {"$in": ...} entry is passed through
\* under the same key
convert_filter_to_chroma_format(filter_dict) == filter_dict

\* Chroma's where clause selects on the METADATA of an entry: the entry
\* matches when its metadata holds the key with one of the listed values
WhereMatches(v, where) ==
    IF where = NoFilter THEN DOMAIN v
    ELSE {i \in DOMAIN v :
            \E pr \in v[i].metadata : pr[1] = where.key /\ pr[2] \in where.in}

\* collection.query(query_embeddings=[embedding], n_results=n, where=...):
\* the possible id lists, ascending distance, ties in either order
chroma_query(v, embedding, filter_dict, n) ==
    LET M == WhereMatches(v, convert_filter_to_chroma_format(filter_dict))
        k == Min(n, Cardinality(M))
        d(i) == Distance(v[i].embedding, embedding)
    IN {s \in [1..k -> M] :
          /\ \A i, j \in 1..k : i # j => s[i] # s[j]
          /\ \A i, j \in 1..k : i < j => d(s[i]) <= d(s[j])
          /\ \A m \in M : (\A i \in 1..k : s[i] # m) =>
                              \A i \in 1..k : d(s[i]) <= d(m)}

\* ------------------------------------------------------------- call state
\* the locals of a call: filter is the filter_dict built from active_ids,
\* memories the list reset_user_memories walks through, facts the facts a
\* multi-fact add has still to store, meta the caller's metadata mapping as
\* it is now and passed the mapping as the caller passed it; op is the
\* multi-fact operation the call belongs to, extracted the facts taken from
\* its message, deleted_count the counter of a message-level delete and
\* before the number of active memories the user had when that call started
LocInit == [user |-> NoUser, fact |-> NoFact, meta |-> {}, n |-> 0, mid |-> 0,
            filter |-> NoFilter, memories |-> <<>>, hits |-> <<>>, res |-> <<>>,
            seen |-> {}, facts |-> <<>>, memory_ids |-> <<>>, passed |-> {},
            op |-> "none", extracted |-> <<>>, deleted_count |-> 0,
            before |-> 0]

AllIdle == \A q \in Procs : pc[q] = "idle"

\* mode is the way the callers use the agent: "racing" handlers call at any
\* time, a "serial" caller waits for the previous call to return, and a
\* "recorded" caller is a serial one whose calls are written down in hist;
\* a "failing" caller is a serial one whose store calls may raise and whose
\* latest call is written down; a "message" caller is a serial caller of
\* MemoryManager.process_message whose latest call is written down;
\* a "context" caller is a serial caller of get_context, query_with_memory
\* and search_memories whose latest call is written down; a "listing" caller
\* is a serial caller of add_memory, delete_memory and get_user_memories
\* whose latest call is written down, the clock running; an
\* "initialization" caller is a serial caller of add_memory and
\* initialize_storage whose latest call is written down;
\* a "metadata_store" or "vector_store" caller calls that store directly
CanStart(p) ==
    /\ pc[p] = "idle"
    /\ mode # "racing" => (AllIdle /\ p = SerialCaller)
    /\ mode = "recorded" => Len(hist) < MaxCalls

IdLimit ==
    IF mode \in {"racing", "failing", "message", "context", "listing",
                 "initialization"}
    THEN MaxRacingIds ELSE MaxIds

\* a call as it is written down: meta is the metadata mapping the caller
\* passed and after the same mapping when the call returned; facts are the
\* facts of a message and count its deleted_count; exception is the store
\* whose exception the call raised; at is the store call that raised, which
\* the caller does not see; text is the string a call above the coordinator
\* returned, line by line
Call(op, user, fact, meta, ok, mid, ids, err) ==
    [op |-> op, user |-> user, fact |-> fact, meta |-> meta, ok |-> ok,
     mid |-> mid, ids |-> ids, err |-> err, after |-> meta, facts |-> <<>>,
     count |-> 0, exception |-> "none", at |-> "return", text |-> <<>>]

\* the call of handler p returns (or raises): the handler is idle again
Return(p, rec) ==
    /\ pc' = [pc EXCEPT ![p] = "idle"]
    /\ loc' = [loc EXCEPT ![p] = LocInit]
    /\ hist' = IF mode = "recorded" THEN Append(hist, rec)
               ELSE IF mode \in {"failing", "message", "context", "listing",
                               "initialization"}
               THEN <<rec>>
               ELSE hist

Goto(p, label, l) ==
    /\ pc' = [pc EXCEPT ![p] = label]
    /\ loc' = [loc EXCEPT ![p] = l]
    /\ UNCHANGED hist

\* ---------------------------------------------------- the Python process
\* os.environ: the variables config.py reads; Unset is a variable that is
\* not in the environment, "" one that is set to the empty string
Unset == "unset"

EnvVars == {"OPENAI_API_KEY", "DB_PATH", "SQL_PATH"}

EnvValues(v) ==
    IF v = "OPENAI_API_KEY" THEN {Unset, "", "test-key"}
    ELSE IF v = "DB_PATH" THEN {Unset, "/tmp/memory_db"}
    ELSE {Unset, "/tmp/memories.db"}

\* the class Config before the module config is imported
Unloaded == [OPENAI_API_KEY |-> "unloaded", DB_PATH |-> "unloaded",
             SQL_PATH |-> "unloaded"]

\* JSON values: a scalar has a text, an array has items
JNull == [type |-> "null", text |-> "null", items |-> <<>>]
JTrue == [type |-> "bool", text |-> "true", items |-> <<>>]
JNumber(t) == [type |-> "number", text |-> t, items |-> <<>>]
JString(t) == [type |-> "string", text |-> t, items |-> <<>>]
JObject == [type |-> "object", text |-> "{'facts': []}", items |-> <<>>]
JList(items) == [type |-> "list", text |-> "", items |-> items]

\* the items of the arrays the provider replies with
ReplyItems == {JNull, JNumber("5"), JString(""), JString("User uses Shram")}

ReplyLists == UNION {[1..k -> ReplyItems] : k \in 0..MaxReplyItems}

\* response.choices[0].message.content: None, a text that is not JSON, or
\* the JSON text of a value
NoContent == [kind |-> "none", value |-> JNull]
NotJson == [kind |-> "text", value |-> JNull]
JsonText(v) == [kind |-> "json", value |-> v]

Contents ==
    {NoContent, NotJson}
      \cup {JsonText(v) : v \in {JNull, JTrue, JNumber("0"), JObject,
                                 JString("User uses Magnet")}}
      \cup {JsonText(JList(l)) : l \in ReplyLists}

\* what the next chat completion does: raise, or reply with a content
ProviderRaises == [raises |-> TRUE, content |-> NoContent]

Completions == {ProviderRaises} \cup {[raises |-> FALSE, content |-> c] : c \in Contents}

\* host is the process the agent runs in: its environment, the class
\* attributes of Config and the provider the fact extractor calls
HostInit == [environ |-> [v \in EnvVars |-> Unset], Config |-> Unloaded,
             completion |-> ProviderRaises]

\* the specifications of the stores and their coordinator leave the
\* process out
NoHost == <<>>

StateInit ==
    /\ rows = EmptyMap
    /\ vec = EmptyMap
    /\ nextId = 1
    /\ clock = 0
    /\ pc = [p \in Procs |-> "idle"]
    /\ loc = [p \in Procs |-> LocInit]
    /\ failed = FALSE
    /\ hist = <<>>
    /\ deletedOK = {}

Init == StateInit /\ mode = "racing" /\ host = NoHost

SeqInit == StateInit /\ mode = "recorded" /\ host = NoHost

SerialInit == StateInit /\ mode = "serial" /\ host = NoHost

MetaStoreInit == StateInit /\ mode = "metadata_store" /\ host = NoHost

VecStoreInit == StateInit /\ mode = "vector_store" /\ host = NoHost

FailInit == StateInit /\ mode = "failing" /\ host = NoHost

ExtractInit == StateInit /\ mode = "extractor" /\ host = HostInit

MessageInit == StateInit /\ mode = "message" /\ host = NoHost

ConfigInit == StateInit /\ mode = "config" /\ host = HostInit

\* IDs a caller can know: those of rows whose add is no longer in progress
KnownIds == DOMAIN rows \ {loc[q].mid : q \in {h \in Procs : pc[h] = "add_vec"}}

\* ------------------------------------------ MemoryStorage.add_memory
\* memory_id = uuid4(); embedding; metadata_store.add_memory(...)
AddMetadataWrite(p, u, f, m) ==
    /\ CanStart(p)
    /\ nextId <= IdLimit
    /\ m \in MetaChoices(KnownIds)
    /\ rows' = sqlite_add_memory(rows, nextId, u, f, m, clock)
    /\ nextId' = nextId + 1
    /\ Goto(p, "add_vec", [LocInit EXCEPT !.user = u, !.fact = f, !.meta = m,
                                          !.mid = nextId])
    /\ UNCHANGED <<vec, clock, failed, mode, deletedOK, host>>

\* vector_store.add_memory(memory_id, embedding, fact, metadata); return memory_id
AddVectorWrite(p) ==
    /\ pc[p] = "add_vec"
    /\ vec' = chroma_add_memory(vec, loc[p].mid, generate_embedding(loc[p].fact),
                                loc[p].fact, loc[p].meta)
    /\ Return(p, [Call("add", loc[p].user, loc[p].fact, loc[p].meta, TRUE,
                        loc[p].mid, <<>>, FALSE)
                      EXCEPT !.after = caller_metadata_after(loc[p].meta,
                                                             loc[p].mid)])
    /\ UNCHANGED <<rows, nextId, clock, failed, mode, deletedOK, host>>

\* ------- MemoryStorage.add_memories_batch, MemoryManager.process_message
\* the sequences of 1..MaxFacts facts
FactLists == UNION {[1..k -> Facts] : k \in 1..MaxFacts}

\* a multi-fact add starts: add_memories_batch(user_id, facts, metadata)
\* embeds the facts, process_message(user_id, message, "add", metadata)
\* extracts them; both then store fact after fact with the one metadata
\* mapping
BatchStart(p, u, facts, m) ==
    /\ CanStart(p)
    /\ nextId + Len(facts) - 1 <= IdLimit
    /\ m \in MetaChoices(KnownIds)
    /\ Goto(p, "batch_meta", [LocInit EXCEPT !.user = u, !.facts = facts,
                                              !.meta = m, !.passed = m,
                                              !.op = "add_batch",
                                              !.extracted = facts])
    /\ UNCHANGED <<rows, vec, nextId, clock, failed, mode, deletedOK, host>>

\* the sequences of up to MaxFacts facts the extractor hands to
\* process_message, the empty one included
ExtractedLists == UNION {[1..k -> Facts] : k \in 0..MaxFacts}

\* process_message(user_id, message, "add", metadata):
\* facts = extract_facts(message); "if not facts" the call returns success
\* False with no memory_ids, else it goes through add_memory(user_id, fact,
\* metadata) fact after fact
ProcessAddStart(p, u, facts, m) ==
    /\ CanStart(p)
    /\ nextId + Len(facts) - 1 <= IdLimit
    /\ m \in MetaChoices(KnownIds)
    /\ IF facts = <<>>
       THEN Return(p, Call("process_add", u, NoFact, m, FALSE, 0, <<>>, FALSE))
       ELSE Goto(p, "batch_meta", [LocInit EXCEPT !.user = u, !.facts = facts,
                                                 !.meta = m, !.passed = m,
                                                 !.op = "process_add",
                                                 !.extracted = facts])
    /\ UNCHANGED <<rows, vec, nextId, clock, failed, mode, deletedOK, host>>

\* the values of action that process_message has no branch for
InvalidActions == {"update", ""}

\* an unknown action is taken for "add" with one extracted fact
ProcessInvalidAction_as_add(p, u, action) ==
    /\ CanStart(p)
    /\ nextId <= IdLimit
    /\ Goto(p, "batch_meta", [LocInit EXCEPT !.user = u, !.facts = <<Shram>>,
                                             !.op = "process_add",
                                             !.extracted = <<Shram>>])
    /\ UNCHANGED <<rows, vec, nextId, clock, failed, mode, deletedOK, host>>

\* process_message(user_id, message, action, metadata), action being neither
\* "add" nor "delete": "else: raise ValueError(...)", which the except
\* clause logs and re-raises
ProcessInvalidAction(p, u, action) ==
    /\ CanStart(p)
    /\ Return(p, [Call("process_message", u, NoFact, {}, FALSE, 0, <<>>, TRUE)
                    EXCEPT !.exception = "ValueError", !.at = action])
    /\ UNCHANGED <<rows, vec, nextId, clock, failed, mode, deletedOK, host>>

\* memory_id = uuid4(); metadata_store.add_memory(memory_id, user_id, fact, metadata)
BatchMetadataWrite(p) ==
    /\ pc[p] = "batch_meta"
    /\ rows' = sqlite_add_memory(rows, nextId, loc[p].user, Head(loc[p].facts),
                                 loc[p].meta, clock)
    /\ nextId' = nextId + 1
    /\ Goto(p, "batch_vec",
            [loc[p] EXCEPT !.mid = nextId, !.fact = Head(loc[p].facts),
                           !.memory_ids = Append(loc[p].memory_ids, nextId)])
    /\ UNCHANGED <<vec, clock, failed, mode, deletedOK, host>>

\* vector_store.add_memory(memory_id, embedding, fact, metadata); next fact
\* or return memory_ids
BatchVectorWrite(p) ==
    /\ pc[p] = "batch_vec"
    /\ vec' = chroma_add_memory(vec, loc[p].mid, generate_embedding(loc[p].fact),
                                loc[p].fact, loc[p].meta)
    /\ LET after == caller_metadata_after(loc[p].meta, loc[p].mid)
       IN IF Tail(loc[p].facts) = <<>>
          THEN Return(p, [Call(loc[p].op, loc[p].user, loc[p].fact,
                               loc[p].passed, TRUE, loc[p].mid,
                               loc[p].memory_ids, FALSE)
                          EXCEPT !.after = after,
                                 !.facts = loc[p].extracted])
          ELSE Goto(p, "batch_meta", [loc[p] EXCEPT !.facts = Tail(loc[p].facts),
                                                    !.meta = after])
    /\ UNCHANGED <<rows, nextId, clock, failed, mode, deletedOK, host>>

\* ---------------------------------------- MemoryStorage.delete_memory
\* active_ids = metadata_store.get_active_memories(user_id); if not active_ids: return False
DeleteGetActive(p, u, f) ==
    /\ CanStart(p)
    /\ \E a \in get_active_memories(rows, u) :
          IF a = <<>>
          THEN Return(p, Call("delete", u, f, {}, FALSE, 0, <<>>, FALSE))
          ELSE Goto(p, "del_query", [LocInit EXCEPT !.user = u, !.fact = f,
                                                    !.filter = IdInFilter(a)])
    /\ UNCHANGED <<rows, vec, nextId, clock, failed, mode, deletedOK, host>>

\* delete_memory returns result: to its caller, or to the loop of
\* process_message(user_id, message, "delete"), which counts the True
\* results ("if delete_memory(user_id, fact): deleted_count += 1") and goes
\* on with the next deletion fact or returns success True and deleted_count
DeleteReturns(p, result, memory_id) ==
    IF loc[p].op # "process_delete"
    THEN Return(p, Call("delete", loc[p].user, loc[p].fact, {}, result,
                        memory_id, <<>>, FALSE))
    ELSE LET deleted_count == loc[p].deleted_count + (IF result THEN 1 ELSE 0)
         IN IF Tail(loc[p].facts) = <<>>
            THEN Return(p, [Call("process_delete", loc[p].user, NoFact, {},
                                 TRUE, 0, <<>>, FALSE)
                            EXCEPT !.facts = loc[p].extracted,
                                   !.count = deleted_count])
            ELSE Goto(p, "pdel_active",
                      [LocInit EXCEPT !.user = loc[p].user,
                                      !.facts = Tail(loc[p].facts),
                                      !.op = "process_delete",
                                      !.extracted = loc[p].extracted,
                                      !.deleted_count = deleted_count,
                                      !.before = loc[p].before])

\* process_message(user_id, message, "delete"):
\* deletion_facts = extract_deletion_facts(message); "if not
\* deletion_facts" the call returns success False and deleted_count 0, else
\* it goes through delete_memory(user_id, fact) fact after fact
ProcessDeleteStart(p, u, facts) ==
    /\ CanStart(p)
    /\ IF facts = <<>>
       THEN Return(p, Call("process_delete", u, NoFact, {}, FALSE, 0, <<>>, FALSE))
       ELSE Goto(p, "pdel_active",
                 [LocInit EXCEPT !.user = u, !.facts = facts,
                                 !.op = "process_delete", !.extracted = facts,
                                 !.before = Cardinality(ActiveSet(rows, u))])
    /\ UNCHANGED <<rows, vec, nextId, clock, failed, mode, deletedOK, host>>

\* delete_memory(user_id, fact) for the next deletion fact:
\* active_ids = metadata_store.get_active_memories(user_id); if not active_ids: return False
ProcessDeleteGetActive(p) ==
    /\ pc[p] = "pdel_active"
    /\ \E a \in get_active_memories(rows, loc[p].user) :
          IF a = <<>>
          THEN DeleteReturns(p, FALSE, 0)
          ELSE Goto(p, "del_query", [loc[p] EXCEPT !.fact = Head(loc[p].facts),
                                                   !.filter = IdInFilter(a)])
    /\ UNCHANGED <<rows, vec, nextId, clock, failed, mode, deletedOK, host>>

\* results = vector_store.query(embedding, {"id": {"$in": active_ids}}, n=1);
\* active_ids is not read again
DeleteQuery(p) ==
    /\ pc[p] = "del_query"
    /\ \E h \in chroma_query(vec, generate_embedding(loc[p].fact),
                             loc[p].filter, 1) :
          IF h # <<>>
          THEN Goto(p, "del_soft", [loc[p] EXCEPT !.hits = h, !.mid = h[1],
                                                   !.filter = NoFilter])
          ELSE DeleteReturns(p, FALSE, 0)
    /\ UNCHANGED <<rows, vec, nextId, clock, failed, mode, deletedOK, host>>

\* metadata_store.delete_memory(memory_id)
DeleteSoft(p) ==
    /\ pc[p] = "del_soft"
    /\ rows' = sqlite_delete_memory(rows, loc[p].mid, clock)
    /\ Goto(p, "del_vec", loc[p])
    /\ UNCHANGED <<vec, nextId, clock, failed, mode, deletedOK, host>>

\* vector_store.delete_memory(memory_id); return True
DeleteVector(p) ==
    /\ pc[p] = "del_vec"
    /\ vec' = chroma_delete_memory(vec, loc[p].mid)
    /\ deletedOK' = deletedOK \cup {loc[p].mid}
    /\ DeleteReturns(p, TRUE, loc[p].mid)
    /\ UNCHANGED <<rows, nextId, clock, failed, mode, host>>

\* ------------------------------------------- MemoryManager.get_context
\* a string is written line by line: f"- {content} (added: {created_at})" is
\* a bullet line, any other line a sentence
Bullet(content, created_at) ==
    [bullet |-> TRUE, content |-> content, added |-> created_at]

Sentence(content) == [bullet |-> FALSE, content |-> content, added |-> 0]

NoRelevantMemories == <<Sentence("No relevant memories found.")>>

ErrorRetrievingMemories == <<Sentence("Error retrieving memories.")>>

\* "\n".join(context_lines), one line for each memory
context_lines(memories) ==
    [i \in 1..Len(memories) |->
        Bullet(memories[i].content, memories[i].created_at)]

\* if not memories: return "No relevant memories found."
format_context(memories) ==
    IF memories = <<>> THEN NoRelevantMemories ELSE context_lines(memories)

\* the provider's answers to a prompt, and f"Error: {str(e)}" when the call
\* of the provider raised
Answers == {<<Sentence("You use Shram.")>>,
            <<Sentence("I have no memories about that.")>>}

ErrorAnswer == <<Sentence("Error: provider")>>

\* what is around the agent while a caller asks for context: the system
\* message handed to the provider and the store call logger.error has
\* written down for this call
ContextHost == [system_message |-> <<>>, logged |-> "return"]

ListInit == StateInit /\ mode = "listing" /\ host = NoHost

ContextInit == StateInit /\ mode = "context" /\ host = ContextHost

\* get_context returns context; query_with_memory puts it into the system
\* message and goes on to the provider
ContextReturns(p, context, logged) ==
    IF loc[p].op = "get_context"
    THEN /\ Return(p, [Call("get_context", loc[p].user, loc[p].fact, {}, TRUE,
                            0, <<>>, FALSE)
                         EXCEPT !.text = context, !.at = logged])
         /\ host' = [host EXCEPT !.logged = logged]
    ELSE /\ Goto(p, "qwm_create", loc[p])
         /\ host' = [system_message |-> context, logged |-> logged]

\* ------------------------------------- MemoryStorage.search_memories
\* thresholds in tenths: 0.0, the default 0.8 and 1.0
Thresholds == {0, 8, 10}

\* what is around the agent while a caller searches: the threshold argument
\* of the call, which no store call reads
SearchHost(threshold) == [threshold |-> threshold]

SearchInit == StateInit /\ mode = "context" /\ host = SearchHost(8)

\* the similarity of a memory to the query in tenths: 1.0 for the same
\* embedding, 0.0 for the other one
Similarity(memory, query) ==
    10 - 5 * Distance(generate_embedding(memory.content),
                      generate_embedding(query))

SelectSeq2(seq, Keep(_)) ==
    LET F[i \in 0..Len(seq)] ==
          IF i = 0 THEN <<>>
          ELSE IF Keep(seq[i]) THEN Append(F[i - 1], seq[i]) ELSE F[i - 1]
    IN F[Len(seq)]

\* the results below the threshold are dropped
search_filter_by_similarity(memories, query, threshold) ==
    IF threshold < 10
    THEN LET Keep(memory) == Similarity(memory, query) >= threshold
         IN SelectSeq2(memories, Keep)
    ELSE memories

\* "if threshold < 1.0: pass": all results are returned
search_filter(memories, query, threshold) ==
    IF threshold < 10 THEN memories ELSE memories

\* search_memories(user_id, query, n, threshold) calls
\* self.retrieve_memories(user_id, query, n)
SearchStart(p, u, q, n, threshold) ==
    /\ CanStart(p)
    /\ Goto(p, "ret_active", [LocInit EXCEPT !.user = u, !.fact = q, !.n = n,
                                             !.op = "search"])
    /\ host' = SearchHost(threshold)
    /\ UNCHANGED <<rows, vec, nextId, clock, failed, mode, deletedOK>>

\* search_memories returns the memories it has after the threshold test
SearchReturns(p, memories) ==
    LET found == search_filter(memories, loc[p].fact, host.threshold)
    IN /\ Return(p, Call("search", loc[p].user, loc[p].fact, {}, TRUE, 0,
                         [i \in 1..Len(found) |-> found[i].id], FALSE))
       /\ UNCHANGED host

\* retrieve_memories returns memories to its caller
RetrieveReturns(p, memories) ==
    IF loc[p].op = "none"
    THEN /\ Return(p, Call("retrieve", loc[p].user, loc[p].fact, {}, TRUE, 0,
                           [i \in 1..Len(memories) |-> memories[i].id], FALSE))
         /\ UNCHANGED host
    ELSE IF loc[p].op = "search"
    THEN SearchReturns(p, memories)
    ELSE ContextReturns(p, format_context(memories), "return")

\* get_context(user_id, query, n), called by the caller or by
\* query_with_memory, enters its try block
ContextStart(p, u, q, n, op) ==
    /\ CanStart(p)
    /\ Goto(p, "ret_active", [LocInit EXCEPT !.user = u, !.fact = q, !.n = n,
                                             !.op = op])
    /\ host' = ContextHost
    /\ UNCHANGED <<rows, vec, nextId, clock, failed, mode, deletedOK>>

\* active_ids = metadata_store.get_active_memories(user_id) of that call
ContextGetActive(p) ==
    /\ pc[p] = "ret_active"
    /\ \E a \in get_active_memories(rows, loc[p].user) :
          IF a = <<>>
          THEN Goto(p, "ret_return", loc[p])
          ELSE Goto(p, "ret_query", [loc[p] EXCEPT !.filter = IdInFilter(a),
                                                    !.seen = deletedOK])
    /\ UNCHANGED <<rows, vec, nextId, clock, failed, mode, deletedOK, host>>

\* a store call or the embedding call of retrieve_memories raises, the
\* coordinator re-raises and get_context catches: "except Exception as e:
\* logger.error(...); return 'Error retrieving memories.'"
ContextFailure(p) ==
    /\ pc[p] \in {"ret_active", "ret_query", "ret_check"}
    /\ loc[p].op \in {"get_context", "query_with_memory"}
    /\ failed' = TRUE
    /\ ContextReturns(p, ErrorRetrievingMemories, pc[p])
    /\ UNCHANGED <<rows, vec, nextId, clock, mode, deletedOK>>

\* response = self.client.chat.completions.create(...);
\* return response.choices[0].message.content
CompletionsCreate(p, answer) ==
    /\ pc[p] = "qwm_create"
    /\ Return(p, [Call("query_with_memory", loc[p].user, loc[p].fact, {}, TRUE,
                       0, <<>>, FALSE)
                    EXCEPT !.text = answer, !.at = host.logged])
    /\ UNCHANGED <<rows, vec, nextId, clock, failed, mode, deletedOK, host>>

\* the provider raises: except Exception as e: return f"Error: {str(e)}"
CompletionsCreateRaises(p) ==
    /\ pc[p] = "qwm_create"
    /\ failed' = TRUE
    /\ Return(p, [Call("query_with_memory", loc[p].user, loc[p].fact, {}, TRUE,
                       0, <<>>, FALSE)
                    EXCEPT !.text = ErrorAnswer, !.at = host.logged])
    /\ UNCHANGED <<rows, vec, nextId, clock, mode, deletedOK, host>>

\* ------------------------------------- MemoryStorage.retrieve_memories
\* active_ids = metadata_store.get_active_memories(user_id); if not active_ids:
\* the call is about to return [], else it goes on to the query
RetrieveGetActive(p, u, q, n) ==
    /\ CanStart(p)
    /\ \E a \in get_active_memories(rows, u) :
          IF a = <<>>
          THEN Goto(p, "ret_return", [LocInit EXCEPT !.user = u])
          ELSE Goto(p, "ret_query", [LocInit EXCEPT !.user = u, !.fact = q,
                                                    !.n = n,
                                                    !.filter = IdInFilter(a),
                                                    !.seen = deletedOK])
    /\ UNCHANGED <<rows, vec, nextId, clock, failed, mode, deletedOK, host>>

\* results = vector_store.query(query_embedding, {"id": {"$in": active_ids}}, n);
\* active_ids is not read again
RetrieveQuery(p) ==
    /\ pc[p] = "ret_query"
    /\ \E h \in chroma_query(vec, generate_embedding(loc[p].fact),
                             loc[p].filter, loc[p].n) :
          IF h = <<>>
          THEN RetrieveReturns(p, <<>>)
          ELSE Goto(p, "ret_check", [loc[p] EXCEPT !.hits = h,
                                                    !.filter = NoFilter])
                 /\ UNCHANGED host
    /\ UNCHANGED <<rows, vec, nextId, clock, failed, mode, deletedOK>>

\* the re-check looks for the row only
KeepHit_any_row(r, memory_id) == HasRow(r, memory_id)

\* if memory_details and not memory_details.get("is_deleted")
KeepHit(r, memory_id) == HasRow(r, memory_id) /\ ~get_memory_by_id(r, memory_id).is_deleted

\* one turn of "for memory_id in results['ids'][0]": get_memory_by_id and
\* the re-check
RetrieveCheck(p) ==
    /\ pc[p] = "ret_check"
    /\ LET memory_id == Head(loc[p].hits)
           res == IF KeepHit(rows, memory_id)
                  THEN Append(loc[p].res, get_memory_by_id(rows, memory_id))
                  ELSE loc[p].res
           l == [loc[p] EXCEPT !.hits = Tail(loc[p].hits), !.res = res,
                               !.mid = memory_id]
       IN Goto(p, IF Tail(loc[p].hits) = <<>> THEN "ret_return" ELSE "ret_check", l)
    /\ UNCHANGED <<rows, vec, nextId, clock, failed, mode, deletedOK, host>>

\* return memories
RetrieveReturn(p) ==
    /\ pc[p] = "ret_return"
    /\ RetrieveReturns(p, loc[p].res)
    /\ UNCHANGED <<rows, vec, nextId, clock, failed, mode, deletedOK>>

\* ------------------------------------ MemoryStorage.get_user_memories
\* return self.metadata_store.get_user_memories(user_id, limit)
GetUserMemories(p, u, limit) ==
    /\ CanStart(p)
    /\ \E a \in get_user_memories_limit(rows, u, limit) :
          Return(p, Call("get_user_memories", u, NoFact, {}, TRUE, 0, a, FALSE))
    /\ UNCHANGED <<rows, vec, nextId, clock, failed, mode, deletedOK, host>>

\* ---------------------------------- MemoryAgent.reset_user_memories
\* memories = self.memory_storage.get_user_memories(user_id)
ResetGetMemories(p, u) ==
    /\ CanStart(p)
    /\ \E a \in get_user_memories(rows, u) :
          IF a = <<>>
          THEN Return(p, Call("reset", u, NoFact, {}, TRUE, 0, <<>>, FALSE))
          ELSE Goto(p, "reset_soft", [LocInit EXCEPT !.user = u, !.memories = a])
    /\ UNCHANGED <<rows, vec, nextId, clock, failed, mode, deletedOK, host>>

\* self.metadata_store.delete_memory(memory_id)
ResetSoft(p) ==
    /\ pc[p] = "reset_soft"
    /\ rows' = sqlite_delete_memory(rows, Head(loc[p].memories), clock)
    /\ Goto(p, "reset_vec", [loc[p] EXCEPT !.mid = Head(loc[p].memories)])
    /\ UNCHANGED <<vec, nextId, clock, failed, mode, deletedOK, host>>

\* self.vector_store.delete_memory(memory_id); next memory or return True
ResetVector(p) ==
    /\ pc[p] = "reset_vec"
    /\ vec' = chroma_delete_memory(vec, loc[p].mid)
    /\ IF Tail(loc[p].memories) = <<>>
       THEN Return(p, Call("reset", loc[p].user, NoFact, {}, TRUE, 0, <<>>, FALSE))
       ELSE Goto(p, "reset_soft", [loc[p] EXCEPT !.memories = Tail(loc[p].memories)])
    /\ UNCHANGED <<rows, nextId, clock, failed, mode, deletedOK, host>>

\* ------------------------------------------------- initialize_storage
\* test_memory_id = "test_init_memory", which is no uuid4
TestMemoryId == 0

TestUserId == "test_user"

TestContent == "This is a test memory for initialization"

\* test_embedding = [0.1] * 1536
TestEmbedding == 1

InitStorageInit == StateInit /\ mode = "initialization" /\ host = NoHost

\* what initialize_storage returns
InitStorageReturns(p, ok) ==
    Return(p, Call("initialize_storage", TestUserId, TestContent, {}, ok,
                   TestMemoryId, <<>>, FALSE))

\* initialize_storage() opens both stores and is about to run its tests
InitStorageStart(p) ==
    /\ CanStart(p)
    /\ Goto(p, "init_sqlite_write", LocInit)
    /\ UNCHANGED <<rows, vec, nextId, clock, failed, mode, deletedOK, host>>

\* metadata_store.add_memory(test_memory_id, test_user_id, test_content);
\* "except Exception: return False" when the INSERT raises
InitSqliteWrite(p) ==
    /\ pc[p] = "init_sqlite_write"
    /\ rows' = sqlite_add_memory(rows, TestMemoryId, TestUserId, TestContent,
                                 {}, clock)
    /\ IF sqlite_add_memory_raises(rows, TestMemoryId)
       THEN InitStorageReturns(p, FALSE)
       ELSE Goto(p, "init_sqlite_read", loc[p])
    /\ UNCHANGED <<vec, nextId, clock, failed, mode, deletedOK, host>>

\* memory = metadata_store.get_memory_by_id(test_memory_id);
\* if memory and memory['content'] == test_content ... else: return False
InitSqliteRead(p) ==
    /\ pc[p] = "init_sqlite_read"
    /\ IF /\ HasRow(rows, TestMemoryId)
          /\ get_memory_by_id(rows, TestMemoryId).content = TestContent
       THEN Goto(p, "init_sqlite_delete", loc[p])
       ELSE InitStorageReturns(p, FALSE)
    /\ UNCHANGED <<rows, vec, nextId, clock, failed, mode, deletedOK, host>>

\* metadata_store.delete_memory(test_memory_id)
InitSqliteDelete(p) ==
    /\ pc[p] = "init_sqlite_delete"
    /\ rows' = sqlite_delete_memory(rows, TestMemoryId, clock)
    /\ Goto(p, "init_chroma_write", loc[p])
    /\ UNCHANGED <<vec, nextId, clock, failed, mode, deletedOK, host>>

\* vector_store.add_memory(test_memory_id, test_embedding, test_content)
InitChromaWrite(p) ==
    /\ pc[p] = "init_chroma_write"
    /\ vec' = chroma_add_memory(vec, TestMemoryId, TestEmbedding, TestContent, {})
    /\ Goto(p, "init_chroma_query", loc[p])
    /\ UNCHANGED <<rows, nextId, clock, failed, mode, deletedOK, host>>

\* results = vector_store.query(test_embedding, n=1);
\* if results and results.get('ids') and results['ids'][0] ... else: return False
InitChromaQuery(p) ==
    /\ pc[p] = "init_chroma_query"
    /\ \E results \in chroma_query(vec, TestEmbedding, NoFilter, 1) :
          IF results # <<>>
          THEN Goto(p, "init_chroma_delete", loc[p])
          ELSE InitStorageReturns(p, FALSE)
    /\ UNCHANGED <<rows, vec, nextId, clock, failed, mode, deletedOK, host>>

\* vector_store.delete_memory(test_memory_id); return True
InitChromaDelete(p) ==
    /\ pc[p] = "init_chroma_delete"
    /\ vec' = chroma_delete_memory(vec, TestMemoryId)
    /\ InitStorageReturns(p, TRUE)
    /\ UNCHANGED <<rows, nextId, clock, failed, mode, deletedOK, host>>

\* ------------------------------------------------------ store failures
OpOf(label) ==
    IF label \in {"add_meta", "add_vec"} THEN "add"
    ELSE IF label \in {"batch_meta", "batch_vec"} THEN "add_batch"
    ELSE IF label \in {"del_active", "pdel_active", "del_query", "del_soft",
                       "del_vec"}
    THEN "delete"
    ELSE IF label \in {"ret_active", "ret_query", "ret_check"} THEN "retrieve"
    ELSE "reset"

\* the store the call made at label goes to
RaisedBy(label) ==
    IF label \in {"add_vec", "batch_vec", "del_query", "del_vec", "ret_query",
                  "reset_vec"}
    THEN "vector_store" ELSE "metadata_store"

\* the first store call of each operation
FirstCall(op) ==
    IF op = "add" THEN "add_meta"
    ELSE IF op = "delete" THEN "del_active" ELSE "ret_active"

\* the call that raised at label: "except Exception as e: logger.error(...);
\* raise" hands the exception of the store to the caller as it is
Raised(label, user, fact, meta, mid) ==
    [Call(OpOf(label), user, fact, meta, FALSE, mid, <<>>, TRUE)
       EXCEPT !.exception = RaisedBy(label), !.at = label]

\* the coordinator catches the exception and returns the value the
\* operation returns when there is nothing to do
StoreFailure_swallowed(p) ==
    /\ pc[p] \notin {"idle", "ret_return"}
    /\ failed' = TRUE
    /\ Return(p, Call(OpOf(pc[p]), loc[p].user, loc[p].fact, loc[p].meta, FALSE,
                      0, <<>>, FALSE))
    /\ UNCHANGED <<rows, vec, nextId, clock, mode, deletedOK, host>>

\* the coordinator undoes the metadata write of the call before it re-raises
StoreFailure_rollback(p) ==
    /\ pc[p] \notin {"idle", "ret_return"}
    /\ failed' = TRUE
    /\ rows' = IF pc[p] = "add_vec"
               THEN [i \in DOMAIN rows \ {loc[p].mid} |-> rows[i]]
               ELSE rows
    /\ Return(p, Raised(pc[p], loc[p].user, loc[p].fact, loc[p].meta,
                        loc[p].mid))
    /\ UNCHANGED <<vec, nextId, clock, mode, deletedOK, host>>

\* the coordinator re-raises after it has undone the writes the multi-fact
\* add made so far: the rows are soft-deleted and the vectors removed
StoreFailure_compensated(p) ==
    /\ pc[p] \notin {"idle", "ret_return"}
    /\ failed' = TRUE
    /\ LET written == {loc[p].memory_ids[i] : i \in 1..Len(loc[p].memory_ids)}
       IN /\ rows' = [i \in DOMAIN rows |->
                        IF i \in written
                        THEN [rows[i] EXCEPT !.is_deleted = TRUE] ELSE rows[i]]
          /\ vec' = [i \in DOMAIN vec \ written |-> vec[i]]
    /\ Return(p, [Raised(pc[p], loc[p].user, loc[p].fact, loc[p].meta,
                         loc[p].mid)
                    EXCEPT !.op = IF loc[p].op = "none" THEN @ ELSE loc[p].op,
                           !.facts = loc[p].extracted])
    /\ UNCHANGED <<nextId, clock, mode, deletedOK, host>>

\* the store call the handler is about to make raises; the coordinator logs
\* and re-raises, the writes made so far stay ("except Exception: raise");
\* process_message logs and re-raises in its turn
StoreFailure(p) ==
    /\ pc[p] \notin {"idle", "ret_return"}
    /\ failed' = TRUE
    /\ Return(p, [Raised(pc[p], loc[p].user, loc[p].fact, loc[p].meta,
                         loc[p].mid)
                    EXCEPT !.op = IF loc[p].op = "none" THEN @ ELSE loc[p].op,
                           !.facts = loc[p].extracted])
    /\ UNCHANGED <<rows, vec, nextId, clock, mode, deletedOK, host>>

\* the first store call of a call of handler p raises: nothing was written
\* and the handler is idle again
FirstCallFailure(p) ==
    /\ CanStart(p)
    /\ failed' = TRUE
    /\ UNCHANGED <<rows, vec, nextId, clock, pc, loc, hist, mode, deletedOK, host>>

\* the same, the call being written down: op(u, f) raises at its first
\* store call
FirstCallRaises(p, op, u, f) ==
    /\ CanStart(p)
    /\ failed' = TRUE
    /\ Return(p, Raised(FirstCall(op), u, f, {}, 0))
    /\ UNCHANGED <<rows, vec, nextId, clock, mode, deletedOK, host>>

\* ------------------------------------- direct calls on one store
StoreIds == 1..MaxStoreIds

Embeddings == {generate_embedding(f) : f \in Facts}

\* the caller of a store writes down its latest call: ok is "returned",
\* err is "raised"
Noted(op, memory_id, raised) ==
    hist' = <<Call(op, StoreUser, NoFact, {}, ~raised, memory_id, <<>>, raised)>>

\* SQLiteMetadataStore.add_memory(memory_id, user_id, content, metadata)
MetadataStoreAdd(memory_id, content, metadata) ==
    /\ rows' = sqlite_add_memory(rows, memory_id, StoreUser, content, metadata,
                                 clock)
    /\ Noted("sqlite_add", memory_id, sqlite_add_memory_raises(rows, memory_id))
    /\ UNCHANGED <<vec, nextId, clock, pc, loc, failed, mode, deletedOK, host>>

\* SQLiteMetadataStore.delete_memory(memory_id)
MetadataStoreDelete(memory_id) ==
    /\ rows' = sqlite_delete_memory(rows, memory_id, clock)
    /\ Noted("sqlite_delete", memory_id, FALSE)
    /\ UNCHANGED <<vec, nextId, clock, pc, loc, failed, mode, deletedOK, host>>

\* SQLiteMetadataStore.update_memory(memory_id, updates)
MetadataStoreUpdate(memory_id, updates) ==
    /\ rows' = sqlite_update_memory(rows, memory_id, updates, clock)
    /\ Noted("sqlite_update", memory_id, FALSE)
    /\ UNCHANGED <<vec, nextId, clock, pc, loc, failed, mode, deletedOK, host>>

\* a second passes: CURRENT_TIMESTAMP reads the next value
Tick ==
    /\ clock < MaxClock
    /\ clock' = clock + 1
    /\ UNCHANGED <<rows, vec, nextId, pc, loc, failed, hist, mode, deletedOK, host>>

\* ChromaVectorStore.add_memory(memory_id, embedding, content, metadata)
VectorStoreAdd(memory_id, embedding, content, metadata) ==
    /\ vec' = chroma_add_memory(vec, memory_id, embedding, content, metadata)
    /\ Noted("chroma_add", memory_id, FALSE)
    /\ UNCHANGED <<rows, nextId, clock, pc, loc, failed, mode, deletedOK, host>>

\* ChromaVectorStore.delete_memory(memory_id)
VectorStoreDelete(memory_id) ==
    /\ vec' = chroma_delete_memory(vec, memory_id)
    /\ Noted("chroma_delete", memory_id, FALSE)
    /\ UNCHANGED <<rows, nextId, clock, pc, loc, failed, mode, deletedOK, host>>

\* -------------------------------------------------------- FactExtractor
\* an outcome of a Python call: it raises, or it returns value
Raises == [raises |-> TRUE, value |-> <<>>]

Returns(value) == [raises |-> FALSE, value |-> value]

\* json.loads(content): JSONDecodeError for a text that is not JSON
json_loads(content) ==
    IF content.kind = "json" THEN [raises |-> FALSE, value |-> content.value]
    ELSE [raises |-> TRUE, value |-> JNull]

\* the truth value Python gives a parsed value in "if fact"
Truthy(v) ==
    IF v.type = "null" THEN FALSE
    ELSE IF v.type = "bool" THEN v.text = "true"
    ELSE IF v.type = "number" THEN v.text # "0"
    ELSE IF v.type = "string" THEN v.text # ""
    ELSE IF v.type = "list" THEN v.items # <<>>
    ELSE TRUE

\* str(fact)
str(v) ==
    IF v.type = "null" THEN "None"
    ELSE IF v.type = "bool" THEN (IF v.text = "true" THEN "True" ELSE "False")
    ELSE v.text

\* [str(fact) for fact in facts if fact]
RECURSIVE StrOfTruthy(_)
StrOfTruthy(items) ==
    IF items = <<>> THEN <<>>
    ELSE IF Truthy(Head(items)) THEN <<str(Head(items))>> \o StrOfTruthy(Tail(items))
    ELSE StrOfTruthy(Tail(items))

\* extract_facts without its outer try: the exception of the provider and
\* the AttributeError of None.strip() reach the caller
extract_facts_unguarded(text, completion) ==
    IF completion.raises THEN Raises
    ELSE IF completion.content.kind = "none" THEN Raises
    ELSE LET parsed == json_loads(completion.content)
         IN IF parsed.raises THEN Returns(<<text>>)
            ELSE IF parsed.value.type = "list"
                 THEN Returns(StrOfTruthy(parsed.value.items))
                 ELSE Returns(<<text>>)

\* FactExtractor.extract_facts(text): the completion is asked for inside
\* "try: ... except Exception: return [text]"; content is
\* response.choices[0].message.content.strip(), which raises for None;
\* json.loads(content) inside "try: ... except json.JSONDecodeError:
\* return [text]"; a list is returned as [str(fact) for fact in facts if
\* fact], anything else as [text]
extract_facts(text, completion) ==
    IF completion.raises THEN Returns(<<text>>)
    ELSE IF completion.content.kind = "none" THEN Returns(<<text>>)
    ELSE LET parsed == json_loads(completion.content)
         IN IF parsed.raises THEN Returns(<<text>>)
            ELSE IF parsed.value.type = "list"
                 THEN Returns(StrOfTruthy(parsed.value.items))
                 ELSE Returns(<<text>>)

\* FactExtractor.extract_deletion_facts(text): the same steps with the
\* deletion prompt
extract_deletion_facts(text, completion) ==
    IF completion.raises THEN Returns(<<text>>)
    ELSE IF completion.content.kind = "none" THEN Returns(<<text>>)
    ELSE LET parsed == json_loads(completion.content)
         IN IF parsed.raises THEN Returns(<<text>>)
            ELSE IF parsed.value.type = "list"
                 THEN Returns(StrOfTruthy(parsed.value.items))
                 ELSE Returns(<<text>>)

\* the provider is set to answer the next completion with c
ProviderAnswers(c) ==
    /\ host' = [host EXCEPT !.completion = c]
    /\ UNCHANGED <<rows, vec, nextId, clock, pc, loc, failed, hist, mode, deletedOK>>

\* the latest call of the extractor as its caller sees it
Extracted(op, text, outcome) ==
    hist' = <<[Call(op, NoUser, text, {}, ~outcome.raises, 0, <<>>, outcome.raises)
                 EXCEPT !.facts = outcome.value]>>

\* a call extract_facts(text)
ExtractFacts(text) ==
    /\ Extracted("extract_facts", text, extract_facts(text, host.completion))
    /\ UNCHANGED <<rows, vec, nextId, clock, pc, loc, failed, mode, deletedOK, host>>

\* a call extract_deletion_facts(text)
ExtractDeletionFacts(text) ==
    /\ Extracted("extract_deletion_facts", text,
                 extract_deletion_facts(text, host.completion))
    /\ UNCHANGED <<rows, vec, nextId, clock, pc, loc, failed, mode, deletedOK, host>>

\* the messages handed to the extractor
Messages == {"I use Shram and Magnet", "I don't use Magnet anymore"}

\* --------------------------------------------------------------- Config
\* Python None
None == "None"

\* os.getenv(name, default)
getenv(environ, name, default) ==
    IF environ[name] = Unset THEN default ELSE environ[name]

\* a test or the shell sets the environment variable name to value, or
\* takes it out of the environment
SetEnv(name, value) ==
    /\ host.environ[name] # value
    /\ host' = [host EXCEPT !.environ[name] = value]
    /\ UNCHANGED <<rows, vec, nextId, clock, pc, loc, failed, hist, mode, deletedOK>>

\* the first "import config" runs the body of class Config:
\* OPENAI_API_KEY = os.getenv("OPENAI_API_KEY"),
\* DB_PATH = os.getenv("DB_PATH", "memory_db"),
\* SQL_PATH = os.getenv("SQL_PATH", "memories.db"); later imports find the
\* module loaded
ImportConfig ==
    /\ host.Config = Unloaded
    /\ host' = [host EXCEPT !.Config =
                   [OPENAI_API_KEY |-> getenv(host.environ, "OPENAI_API_KEY", None),
                    DB_PATH |-> getenv(host.environ, "DB_PATH", "memory_db"),
                    SQL_PATH |-> getenv(host.environ, "SQL_PATH", "memories.db")]]
    /\ UNCHANGED <<rows, vec, nextId, clock, pc, loc, failed, hist, mode, deletedOK>>

\* Config.validate(): "if not cls.OPENAI_API_KEY: raise ValueError(...)",
\* else "return True"; None and "" are both false
validate(h) ==
    IF h.Config.OPENAI_API_KEY \in {None, ""} THEN Raises
    ELSE Returns(<<TRUE>>)

\* a call Config.validate() of a process that has imported config
Validate ==
    /\ host.Config # Unloaded
    /\ LET outcome == validate(host)
       IN hist' = <<Call("validate", NoUser, NoFact, {}, ~outcome.raises, 0,
                         <<>>, outcome.raises)>>
    /\ UNCHANGED <<rows, vec, nextId, clock, pc, loc, failed, mode, deletedOK, host>>

\* concurrent request handlers
Next ==
    \/ \E p \in Procs, u \in Users, f \in RacingFacts,
          m \in MetaChoices(1..MaxIds) : AddMetadataWrite(p, u, f, m)
    \/ \E p \in Procs : AddVectorWrite(p)
    \/ \E p \in Procs, u \in Users, f \in RacingFacts : DeleteGetActive(p, u, f)
    \/ \E p \in Procs : DeleteQuery(p)
    \/ \E p \in Procs : DeleteSoft(p)
    \/ \E p \in Procs : DeleteVector(p)
    \/ \E p \in Procs, u \in Users, q \in RacingFacts, n \in 1..MaxN :
          RetrieveGetActive(p, u, q, n)
    \/ \E p \in Procs : RetrieveQuery(p)
    \/ \E p \in Procs : RetrieveCheck(p)
    \/ \E p \in Procs : RetrieveReturn(p)
    \/ \E p \in Procs, u \in Users : ResetGetMemories(p, u)
    \/ \E p \in Procs : ResetSoft(p)
    \/ \E p \in Procs : ResetVector(p)
    \/ \E p \in Procs : StoreFailure(p)
    \/ \E p \in Procs : FirstCallFailure(p)

\* one caller issuing add, delete and retrieve calls one after the other
SerialNext ==
    \/ \E p \in Procs, u \in Users, f \in Facts, m \in MetaChoices(1..MaxIds) :
          AddMetadataWrite(p, u, f, m)
    \/ \E p \in Procs : AddVectorWrite(p)
    \/ \E p \in Procs, u \in Users, f \in Facts : DeleteGetActive(p, u, f)
    \/ \E p \in Procs : DeleteQuery(p)
    \/ \E p \in Procs : DeleteSoft(p)
    \/ \E p \in Procs : DeleteVector(p)
    \/ \E p \in Procs, u \in Users, q \in Facts, n \in 1..MaxN :
          RetrieveGetActive(p, u, q, n)
    \/ \E p \in Procs : RetrieveQuery(p)
    \/ \E p \in Procs : RetrieveCheck(p)
    \/ \E p \in Procs : RetrieveReturn(p)

\* one caller issuing add_memory and delete_memory calls one after the other,
\* the calls being recorded
SeqNext ==
    \/ \E p \in Procs, u \in Users, f \in Facts, m \in MetaChoices(1..MaxIds) :
          AddMetadataWrite(p, u, f, m)
    \/ \E p \in Procs : AddVectorWrite(p)
    \/ \E p \in Procs, u \in Users, f \in Facts : DeleteGetActive(p, u, f)
    \/ \E p \in Procs : DeleteQuery(p)
    \/ \E p \in Procs : DeleteSoft(p)
    \/ \E p \in Procs : DeleteVector(p)

\* one caller of the metadata store alone, the clock running
MetaStoreNext ==
    \/ \E id \in StoreIds, f \in Facts : MetadataStoreAdd(id, f, {})
    \/ \E id \in StoreIds : MetadataStoreDelete(id)
    \/ \E id \in StoreIds, updates \in UpdateChoices :
          MetadataStoreUpdate(id, updates)
    \/ Tick

\* one caller of the vector store alone
VecStoreNext ==
    \/ \E id \in StoreIds, e \in Embeddings, f \in Facts, m \in StoreMetas :
          VectorStoreAdd(id, e, f, m)
    \/ \E id \in StoreIds : VectorStoreDelete(id)

\* one caller issuing single and multi-fact adds one after the other, the
\* calls being recorded
AddNext ==
    \/ \E p \in Procs, u \in Users, f \in Facts, m \in MetaChoices(1..MaxIds) :
          AddMetadataWrite(p, u, f, m)
    \/ \E p \in Procs : AddVectorWrite(p)
    \/ \E p \in Procs, u \in Users, facts \in FactLists,
          m \in MetaChoices(1..MaxIds) : BatchStart(p, u, facts, m)
    \/ \E p \in Procs : BatchMetadataWrite(p)
    \/ \E p \in Procs : BatchVectorWrite(p)

\* one caller issuing add, multi-fact add, delete and retrieve calls one
\* after the other, any store call of which may raise
FailNext ==
    \/ \E p \in Procs, u \in Users, f \in RacingFacts,
          m \in MetaChoices(1..MaxIds) : AddMetadataWrite(p, u, f, m)
    \/ \E p \in Procs : AddVectorWrite(p)
    \/ \E p \in Procs, u \in Users, facts \in FactLists, m \in {{}} :
          BatchStart(p, u, facts, m)
    \/ \E p \in Procs : BatchMetadataWrite(p)
    \/ \E p \in Procs : BatchVectorWrite(p)
    \/ \E p \in Procs, u \in Users, f \in RacingFacts : DeleteGetActive(p, u, f)
    \/ \E p \in Procs : DeleteQuery(p)
    \/ \E p \in Procs : DeleteSoft(p)
    \/ \E p \in Procs : DeleteVector(p)
    \/ \E p \in Procs, u \in Users, q \in RacingFacts, n \in 1..MaxN :
          RetrieveGetActive(p, u, q, n)
    \/ \E p \in Procs : RetrieveQuery(p)
    \/ \E p \in Procs : RetrieveCheck(p)
    \/ \E p \in Procs : RetrieveReturn(p)
    \/ \E p \in Procs : StoreFailure(p)
    \/ \E p \in Procs, op \in {"add", "delete", "retrieve"}, u \in Users,
          f \in RacingFacts : FirstCallRaises(p, op, u, f)

\* one caller of the fact extractor, the provider answering in any way
ExtractNext ==
    \/ \E c \in Completions : ProviderAnswers(c)
    \/ \E text \in Messages : ExtractFacts(text)
    \/ \E text \in Messages : ExtractDeletionFacts(text)

\* one caller of process_message issuing "add" and "delete" messages one
\* after the other
MessageNext ==
    \/ \E p \in Procs, u \in Users, facts \in ExtractedLists,
          m \in MetaChoices(1..MaxIds) : ProcessAddStart(p, u, facts, m)
    \/ \E p \in Procs : BatchMetadataWrite(p)
    \/ \E p \in Procs : BatchVectorWrite(p)
    \/ \E p \in Procs, u \in Users, facts \in ExtractedLists :
          ProcessDeleteStart(p, u, facts)
    \/ \E p \in Procs : ProcessDeleteGetActive(p)
    \/ \E p \in Procs : DeleteQuery(p)
    \/ \E p \in Procs : DeleteSoft(p)
    \/ \E p \in Procs : DeleteVector(p)

\* one caller of process_message issuing "add" messages one after the other
MessageAddNext ==
    \/ \E p \in Procs, u \in Users, facts \in ExtractedLists,
          m \in MetaChoices(1..MaxIds) : ProcessAddStart(p, u, facts, m)
    \/ \E p \in Procs : BatchMetadataWrite(p)
    \/ \E p \in Procs : BatchVectorWrite(p)

\* one caller of process_message issuing "add" messages and messages with
\* an unknown action one after the other, any store call of which may raise
MessageErrorNext ==
    \/ \E p \in Procs, u \in Users, facts \in ExtractedLists,
          m \in MetaChoices(1..MaxIds) : ProcessAddStart(p, u, facts, m)
    \/ \E p \in Procs : BatchMetadataWrite(p)
    \/ \E p \in Procs : BatchVectorWrite(p)
    \/ \E p \in Procs : StoreFailure(p)
    \/ \E p \in Procs, u \in Users, action \in InvalidActions :
          ProcessInvalidAction(p, u, action)

\* one caller issuing add, delete and reset calls one after the other, any
\* store call of which may raise
ResetNext ==
    \/ \E p \in Procs, u \in Users, f \in RacingFacts,
          m \in MetaChoices(1..MaxIds) : AddMetadataWrite(p, u, f, m)
    \/ \E p \in Procs : AddVectorWrite(p)
    \/ \E p \in Procs, u \in Users, f \in RacingFacts : DeleteGetActive(p, u, f)
    \/ \E p \in Procs : DeleteQuery(p)
    \/ \E p \in Procs : DeleteSoft(p)
    \/ \E p \in Procs : DeleteVector(p)
    \/ \E p \in Procs, u \in Users : ResetGetMemories(p, u)
    \/ \E p \in Procs : ResetSoft(p)
    \/ \E p \in Procs : ResetVector(p)
    \/ \E p \in Procs : StoreFailure(p)

\* one caller issuing add, delete and get_user_memories calls one after the
\* other, the clock running
ListNext ==
    \/ \E p \in Procs, u \in Users, f \in RacingFacts,
          m \in MetaChoices(1..MaxIds) : AddMetadataWrite(p, u, f, m)
    \/ \E p \in Procs : AddVectorWrite(p)
    \/ \E p \in Procs, u \in Users, f \in RacingFacts : DeleteGetActive(p, u, f)
    \/ \E p \in Procs : DeleteQuery(p)
    \/ \E p \in Procs : DeleteSoft(p)
    \/ \E p \in Procs : DeleteVector(p)
    \/ \E p \in Procs, u \in Users, limit \in Limits :
          GetUserMemories(p, u, limit)
    \/ Tick

\* one caller issuing add and search_memories calls one after the other
SearchNext ==
    \/ \E p \in Procs, u \in Users, f \in Facts, m \in MetaChoices(1..MaxIds) :
          AddMetadataWrite(p, u, f, m)
    \/ \E p \in Procs : AddVectorWrite(p)
    \/ \E p \in Procs, u \in Users, q \in Facts, n \in 1..MaxN,
          threshold \in Thresholds : SearchStart(p, u, q, n, threshold)
    \/ \E p \in Procs : ContextGetActive(p)
    \/ \E p \in Procs : RetrieveQuery(p)
    \/ \E p \in Procs : RetrieveCheck(p)
    \/ \E p \in Procs : RetrieveReturn(p)

\* one caller running initialize_storage and add_memory one after the other
\* on the same two stores
InitStorageNext ==
    \/ \E p \in Procs, u \in Users, f \in RacingFacts,
          m \in MetaChoices(1..MaxIds) : AddMetadataWrite(p, u, f, m)
    \/ \E p \in Procs : AddVectorWrite(p)
    \/ \E p \in Procs : InitStorageStart(p)
    \/ \E p \in Procs : InitSqliteWrite(p)
    \/ \E p \in Procs : InitSqliteRead(p)
    \/ \E p \in Procs : InitSqliteDelete(p)
    \/ \E p \in Procs : InitChromaWrite(p)
    \/ \E p \in Procs : InitChromaQuery(p)
    \/ \E p \in Procs : InitChromaDelete(p)

\* a process whose environment changes, that imports config and calls
\* Config.validate()
ConfigNext ==
    \/ \E name \in EnvVars : \E value \in EnvValues(name) : SetEnv(name, value)
    \/ ImportConfig
    \/ Validate

\* one caller issuing add, get_context and query_with_memory calls one
\* after the other, the calls the context needs being free to raise
ContextNext ==
    \/ \E p \in Procs, u \in Users, f \in Facts, m \in MetaChoices(1..MaxIds) :
          AddMetadataWrite(p, u, f, m)
    \/ \E p \in Procs : AddVectorWrite(p)
    \/ \E p \in Procs, u \in Users, q \in RacingFacts, n \in 1..MaxN,
          op \in {"get_context", "query_with_memory"} :
          ContextStart(p, u, q, n, op)
    \/ \E p \in Procs : ContextGetActive(p)
    \/ \E p \in Procs : RetrieveQuery(p)
    \/ \E p \in Procs : RetrieveCheck(p)
    \/ \E p \in Procs : RetrieveReturn(p)
    \/ \E p \in Procs : ContextFailure(p)
    \/ \E p \in Procs, answer \in Answers : CompletionsCreate(p, answer)
    \/ \E p \in Procs : CompletionsCreateRaises(p)

Spec == Init /\ [][Next]_vars

ContextSpec == ContextInit /\ [][ContextNext]_vars

ConfigSpec == ConfigInit /\ [][ConfigNext]_vars

MessageAddSpec == MessageInit /\ [][MessageAddNext]_vars

ResetSpec == FailInit /\ [][ResetNext]_vars

InitStorageSpec == InitStorageInit /\ [][InitStorageNext]_vars

SearchSpec == SearchInit /\ [][SearchNext]_vars

ListSpec == ListInit /\ [][ListNext]_vars

MessageErrorSpec == MessageInit /\ [][MessageErrorNext]_vars

MessageSpec == MessageInit /\ [][MessageNext]_vars

ExtractSpec == ExtractInit /\ [][ExtractNext]_vars

FailSpec == FailInit /\ [][FailNext]_vars

AddSpec == SeqInit /\ [][AddNext]_vars

MetaStoreSpec == MetaStoreInit /\ [][MetaStoreNext]_vars

VecStoreSpec == VecStoreInit /\ [][VecStoreNext]_vars

SeqSpec == SeqInit /\ [][SeqNext]_vars

SerialSpec == SerialInit /\ [][SerialNext]_vars

TypeOK ==
    /\ DOMAIN vec \subseteq 1..MaxIds \cup {TestMemoryId}
    /\ DOMAIN rows \subseteq 1..MaxIds \cup {TestMemoryId}
    /\ nextId \in 1..(MaxIds + 1)
    /\ clock \in 0..MaxClock
    /\ failed \in BOOLEAN

\* ================================================================ claims
Ids(seq) == {seq[i] : i \in 1..Len(seq)}

AddDeleteLabels == {"add_vec", "del_query", "del_soft", "del_vec"}
ResetLabels == {"reset_soft", "reset_vec"}

\* an ID is in the vector index exactly when its row exists and is active
I2 ==
    \A id \in DOMAIN rows \cup DOMAIN vec :
        (id \in DOMAIN vec) <=> (HasRow(rows, id) /\ ~rows[id].is_deleted)

\* C1 (I2): in every state in which no add_memory or delete_memory call (and
\* no reset_user_memories call either) is in progress and no store call has
\* failed so far, an ID is in the vector index iff its row exists with
\* is_deleted = false.
C1_I2_quiescent ==
    ( /\ \A p \in Procs : pc[p] \notin AddDeleteLabels \cup ResetLabels
      /\ ~failed )
    => I2

\* C2 (I1): in every state, the intermediate states of racing adds included,
\* every ID in the vector index has a row, and so has every hit a retrieve
\* obtained from the vector index.
C2_I1_existence ==
    /\ DOMAIN vec \subseteq DOMAIN rows
    /\ \A p \in Procs : \A i \in 1..Len(loc[p].hits) : HasRow(rows, loc[p].hits[i])

\* an add is between its two writes while a retrieve whose candidate list
\* already holds the new ID is about to query the index
C2_witness ==
    \E p, q \in Procs :
        /\ pc[p] = "add_vec"
        /\ pc[q] = "ret_query"
        /\ loc[p].mid \in loc[q].filter.in
        /\ DOMAIN vec # {}

\* C3 (I3): whenever a step removes the vector of an ID, the row of that ID
\* is already marked is_deleted.
C3_I3_soft_before_hard ==
    [][\A id \in DOMAIN vec :
          id \notin DOMAIN vec' => (HasRow(rows, id) /\ rows[id].is_deleted)]_vars

\* delete_memory has removed one vector and reset_user_memories another
C3_witness ==
    /\ AllIdle
    /\ ~failed
    /\ deletedOK # {}
    /\ \E y \in DOMAIN rows \ deletedOK : rows[y].is_deleted /\ y \notin DOMAIN vec

\* C4: every memory a retrieve_memories(u, ...) call collects has user_id = u.
C4_retrieve_user_isolation ==
    \A p \in Procs : \A i \in 1..Len(loc[p].res) :
        loc[p].res[i].user_id = loc[p].user

\* C5: a step of delete_memory(u, fact) leaves the rows and the vectors of
\* every other user as they were.
C5_delete_user_isolation ==
    [][\A p \in Procs :
          (pc[p] \in {"del_query", "del_soft", "del_vec"} /\ pc'[p] # pc[p]) =>
             \A id \in DOMAIN rows :
                rows[id].user_id # loc[p].user =>
                   /\ rows'[id] = rows[id]
                   /\ id \in DOMAIN vec => (id \in DOMAIN vec' /\ vec'[id] = vec[id])]_vars

\* the active memories of u that are nearest to embedding e
NearestActive(u, e) ==
    {i \in ActiveSet(rows, u) \cap DOMAIN vec :
        \A j \in ActiveSet(rows, u) \cap DOMAIN vec :
            Distance(vec[i].embedding, e) <= Distance(vec[j].embedding, e)}

\* C6: a delete_memory(u, fact) call of a serial caller that found active
\* memories of u selects a nearest active memory of u, marks exactly that
\* row deleted, removes exactly that vector and returns True.
C6_nearest_match_delete ==
    [][\A p \in Procs :
          /\ (pc[p] = "del_query" /\ pc'[p] # "del_query") =>
                /\ pc'[p] = "del_soft"
                /\ loc'[p].mid \in NearestActive(loc[p].user,
                                                 generate_embedding(loc[p].fact))
          /\ (pc[p] = "del_soft" /\ pc'[p] = "del_vec") =>
                /\ rows'[loc[p].mid].is_deleted
                /\ \A i \in DOMAIN rows : i # loc[p].mid => rows'[i] = rows[i]
          /\ (pc[p] = "del_vec" /\ pc'[p] = "idle") =>
                /\ hist'[Len(hist')].ok
                /\ vec' = [i \in DOMAIN vec \ {loc[p].mid} |-> vec[i]]]_vars

IsAdd(c, u, f) == c.op = "add" /\ c.user = u /\ c.fact = f /\ ~c.err
IsDelete(c, u, f) == c.op = "delete" /\ c.user = u /\ c.fact = f /\ ~c.err

\* C7: after add "User uses Shram", add "User uses Magnet" and a delete with
\* the embedding of "User uses Magnet", a second such delete returns False
\* and the only active memory of the user is the Shram memory.
C7_repeated_delete ==
    \A u \in Users :
        ( /\ AllIdle
          /\ Len(hist) = 4
          /\ IsAdd(hist[1], u, Shram)
          /\ IsAdd(hist[2], u, Magnet)
          /\ IsDelete(hist[3], u, Magnet)
          /\ IsDelete(hist[4], u, Magnet) )
        => ( /\ ~hist[4].ok
             /\ ActiveSet(rows, u) = {hist[1].mid} )

CompletedAdds(u) ==
    Cardinality({i \in 1..Len(hist) : hist[i].op = "add" /\ hist[i].user = u
                                         /\ ~hist[i].err})
SuccessfulDeletes(u) ==
    Cardinality({i \in 1..Len(hist) : hist[i].op = "delete" /\ hist[i].user = u
                                         /\ hist[i].ok})

\* C8: after every serial history of add_memory and delete_memory calls the
\* length of get_active_memories(u) is the number of adds for u minus the
\* number of delete_memory(u, ...) calls that returned True.
C8_active_count ==
    AllIdle =>
       \A u \in Users : \A a \in get_active_memories(rows, u) :
           Len(a) = CompletedAdds(u) - SuccessfulDeletes(u)

\* C9: a retrieve never holds a record with is_deleted = true, and a turn of
\* its re-check loop that finds the row of the hit absent or soft-deleted
\* adds nothing to the result.
C9_retrieve_recheck ==
    [][\A p \in Procs :
          (pc[p] = "ret_check" /\ pc'[p] \in {"ret_check", "ret_return"}
             /\ loc'[p] # loc[p]) =>
             /\ \A i \in 1..Len(loc'[p].res) : ~loc'[p].res[i].is_deleted
             /\ ( ~HasRow(rows, Head(loc[p].hits))
                  \/ rows[Head(loc[p].hits)].is_deleted )
                => loc'[p].res = loc[p].res]_vars

\* a racing delete_memory has soft-deleted a hit and not yet removed its
\* vector, and the re-check of the retrieve has dropped that hit
C9_witness ==
    \E p, q \in Procs :
        /\ pc[p] \in {"ret_check", "ret_return"}
        /\ pc[q] = "del_vec"
        /\ loc[p].mid = loc[q].mid
        /\ loc[p].mid \in DOMAIN vec
        /\ rows[loc[p].mid].is_deleted
        /\ \A i \in 1..Len(loc[p].res) : loc[p].res[i].id # loc[p].mid

\* C10: an ID X that a delete_memory call returning True selected is in no
\* result of an unrestricted vector query, and in no result of a retrieve
\* that started after that call returned.
C10_delete_permanent ==
    \A X \in deletedOK :
        /\ \A f \in Facts, n \in 1..MaxN :
              \A s \in chroma_query(vec, generate_embedding(f), NoFilter, n) :
                  X \notin Ids(s)
        /\ \A p \in Procs :
              X \in loc[p].seen =>
                 \A i \in 1..Len(loc[p].res) : loc[p].res[i].id # X

\* a retrieve that started after a successful delete returns a memory
C10_witness ==
    \E p \in Procs :
        /\ pc[p] = "ret_return"
        /\ loc[p].seen # {}
        /\ loc[p].res # <<>>

\* the record of the call that returned in this step
LastCall == hist'[Len(hist')]

\* C11: a delete_memory(u, fact) call that starts while u has no active
\* memory returns False in the step that read the active IDs: it makes no
\* query and no delete on the vector index, no write to the metadata store,
\* and both stores are as they were.
C11_delete_no_active ==
    [][\A p \in Procs, u \in Users :
          ( /\ pc[p] = "idle"
            /\ ActiveSet(rows, u) = {}
            /\ \/ pc'[p] = "del_query" /\ loc'[p].user = u
               \/ /\ Len(hist') = Len(hist) + 1
                  /\ LastCall.op = "delete" /\ LastCall.user = u )
          => ( /\ pc'[p] = "idle"
               /\ ~LastCall.ok /\ ~LastCall.err
               /\ rows' = rows /\ vec' = vec )]_vars

\* a user without memories got False from delete_memory while the memory of
\* another user stayed active and indexed
C11_witness ==
    /\ AllIdle
    /\ Len(hist) = 2
    /\ hist[1].op = "add"
    /\ hist[2].op = "delete" /\ hist[2].user # hist[1].user
    /\ ~hist[2].ok /\ ~hist[2].err
    /\ hist[1].mid \in ActiveSet(rows, hist[1].user) \cap DOMAIN vec

\* C12: a retrieve_memories(u, query, n) call that starts while u has no
\* active memory is about to return the empty list right after reading the
\* active IDs, without a vector query and without raising, and no step of
\* the call changes the rows or the vectors.
C12_retrieve_no_active ==
    [][\A p \in Procs :
          /\ \A u \in Users :
                ( /\ pc[p] = "idle"
                  /\ ActiveSet(rows, u) = {}
                  /\ pc'[p] \in {"ret_query", "ret_check", "ret_return"}
                  /\ loc'[p].user = u )
                => ( /\ pc'[p] = "ret_return"
                     /\ loc'[p].res = <<>>
                     /\ rows' = rows /\ vec' = vec )
          /\ (pc[p] = "ret_return" /\ pc'[p] = "idle")
                => (rows' = rows /\ vec' = vec)]_vars

\* a user whose only memory was deleted calls retrieve_memories while another
\* user's memory is indexed: the call is about to return [] and has checked
\* no hit
C12_witness ==
    \E p \in Procs :
        /\ pc[p] = "ret_return"
        /\ loc[p].res = <<>>
        /\ loc[p].mid = 0
        /\ ActiveSet(rows, loc[p].user) = {}
        /\ \E i \in DOMAIN rows : rows[i].user_id = loc[p].user
        /\ DOMAIN vec # {}

\* C13: the list a retrieve_memories(u, query, n) call of a serial caller is
\* about to return holds at most min(n, number of active memories of u)
\* records, in ascending distance to the query embedding.
C13_retrieve_bound_order ==
    \A p \in Procs :
        pc[p] = "ret_return" =>
           /\ Len(loc[p].res) <= Min(loc[p].n,
                                     Cardinality(ActiveSet(rows, loc[p].user)))
           /\ \A i, j \in 1..Len(loc[p].res) :
                 i < j =>
                    Distance(generate_embedding(loc[p].res[i].content),
                             generate_embedding(loc[p].fact))
                    <= Distance(generate_embedding(loc[p].res[j].content),
                                generate_embedding(loc[p].fact))

\* C14: no step takes a row from is_deleted = true back to false or away:
\* not a soft delete, not an update_memory with any updates mapping, not an
\* add_memory with the ID of the row.
C14_deleted_terminal ==
    [][\A id \in DOMAIN rows :
          rows[id].is_deleted => (HasRow(rows', id) /\ rows'[id].is_deleted)]_vars

\* the latest call was an update_memory on a soft-deleted row, made in a
\* later second than the insert of the row
C14_witness ==
    /\ hist # <<>>
    /\ hist[1].op = "sqlite_update"
    /\ HasRow(rows, hist[1].mid)
    /\ rows[hist[1].mid].is_deleted
    /\ rows[hist[1].mid].updated_at > rows[hist[1].mid].created_at

\* C15: no step of an add, delete, retrieve or reset call removes a row, and
\* a step that changes an existing row is a soft delete: it sets is_deleted
\* and updated_at and leaves every other column as it was.
C15_rows_only_soft_deleted ==
    [][/\ DOMAIN rows \subseteq DOMAIN rows'
       /\ \A id \in DOMAIN rows :
             \/ rows'[id] = rows[id]
             \/ rows'[id] = [rows[id] EXCEPT !.is_deleted = TRUE,
                                             !.updated_at = clock]]_vars

\* a delete_memory call has soft-deleted a row and not yet removed its
\* vector, while the row of another memory is active
C15_witness ==
    \E p \in Procs :
        /\ pc[p] = "del_vec"
        /\ rows[loc[p].mid].is_deleted
        /\ loc[p].mid \in DOMAIN vec
        /\ \E id \in DOMAIN rows : id # loc[p].mid /\ ~rows[id].is_deleted

\* C16: a delete_memory(id) call on the metadata store that directly follows
\* a delete_memory(id) call leaves every column of every row, updated_at
\* included, as the first call left it.
C16_soft_delete_idempotent ==
    [][\A id \in StoreIds :
          ( /\ hist # <<>>
            /\ hist[1].op = "sqlite_delete" /\ hist[1].mid = id
            /\ MetadataStoreDelete(id) )
          => rows' = rows]_vars

\* C17: a delete_memory(id) call on the metadata store for an id without a
\* row returns without raising and leaves the table as it was: no row is
\* created and no row is changed.
C17_soft_delete_missing_row ==
    [][\A id \in StoreIds :
          ( /\ hist' # <<>>
            /\ hist'[1].op = "sqlite_delete" /\ hist'[1].mid = id
            /\ ~HasRow(rows, id) )
          => (~hist'[1].err /\ rows' = rows)]_vars

\* the latest call was a delete_memory of an id without a row, made while
\* another id has an active row
C17_witness ==
    /\ hist # <<>>
    /\ hist[1].op = "sqlite_delete"
    /\ ~HasRow(rows, hist[1].mid)
    /\ \E id \in DOMAIN rows : ~rows[id].is_deleted

\* C18: an add_memory call on the metadata store with an id that has a row,
\* active or soft-deleted, raises and leaves every row as it was.
C18_duplicate_id_rejected ==
    [][\A id \in StoreIds :
          ( /\ HasRow(rows, id)
            /\ \E f \in Facts : MetadataStoreAdd(id, f, {}) )
          => (hist'[1].err /\ rows' = rows)]_vars

\* the latest call, an add_memory with the id of a soft-deleted row, raised;
\* the row of another id is active
C18_witness ==
    /\ hist # <<>>
    /\ hist[1].op = "sqlite_add"
    /\ hist[1].err
    /\ rows[hist[1].mid].is_deleted
    /\ \E id \in DOMAIN rows : ~rows[id].is_deleted

\* C19: an add_memory call on the vector store with an id that is in the
\* collection returns without raising and leaves the entry of that id with
\* the embedding, the content and the metadata of the call.
C19_vector_add_overwrites ==
    [][\A id \in StoreIds, e \in Embeddings, f \in Facts, m \in StoreMetas :
          (id \in DOMAIN vec /\ VectorStoreAdd(id, e, f, m))
          => ( /\ ~hist'[1].err
               /\ vec'[id] = [embedding |-> e, document |-> f,
                              metadata |-> memory_metadata(m, id)] )]_vars

\* the IDs a recorded add created
Created(c) == IF c.op = "add" THEN {c.mid} ELSE Ids(c.ids)

\* C20: for every recorded add, single or multi-fact, with metadata M the
\* metadata column of every row it created holds M, and the caller's mapping
\* is M when the call has returned.
C20_metadata_round_trip ==
    \A i \in 1..Len(hist) :
        (hist[i].op \in {"add", "add_batch"} /\ hist[i].ok) =>
           /\ \A id \in Created(hist[i]) :
                 json_to_dict(rows[id].metadata) = hist[i].meta
           /\ hist[i].after = hist[i].meta

\* the row of id is active and id has no vector in the index
PartialAdd(r, v, id) == id \in DOMAIN r /\ ~r[id].is_deleted /\ id \notin DOMAIN v

\* the table without the row of id
WithoutRow(r, id) == [i \in DOMAIN r \ {id} |-> r[i]]

\* C21: after an add_memory call raised at its vector write, the row its
\* metadata write made is still there and active (no rollback) and has no
\* vector; and every active row without a vector is in get_active_memories
\* of its user, is counted once in total_memories and active_memories of
\* get_memory_stats, and is in no result a retrieve_memories call collects
\* or returns.
C21_partial_add ==
    /\ (hist # <<>> /\ hist[1].at = "add_vec")
          => PartialAdd(rows, vec, hist[1].mid)
    /\ \A id \in DOMAIN rows :
          PartialAdd(rows, vec, id) =>
             LET u == rows[id].user_id
                 with == get_memory_stats(rows, u)
                 without == get_memory_stats(WithoutRow(rows, id), u)
             IN /\ \A a \in get_active_memories(rows, u) : id \in Ids(a)
                /\ with.total_memories = without.total_memories + 1
                /\ with.active_memories = without.active_memories + 1
                /\ with.deleted_memories = without.deleted_memories
                /\ \A q \in Procs : \A k \in 1..Len(loc[q].res) :
                      loc[q].res[k].id # id
                /\ (hist # <<>> /\ hist[1].op = "retrieve")
                      => id \notin Ids(hist[1].ids)

\* an add_memory call raised at its vector write, and a later
\* retrieve_memories call of the same user returned other memories
C21_witness ==
    /\ failed /\ AllIdle
    /\ hist # <<>> /\ hist[1].op = "retrieve" /\ hist[1].ids # <<>>
    /\ \E id \in DOMAIN rows :
          PartialAdd(rows, vec, id) /\ rows[id].user_id = hist[1].user

\* the second store write of add_memory or delete_memory raised
PartialWrite(c) == c.err /\ c.at \in {"add_vec", "del_vec"}

\* the first store write of add_memory or delete_memory raised
FirstWriteFailed(c) == c.err /\ c.at \in {"add_meta", "del_soft"}

\* what the caller of a call that raised has in hand: the arguments it
\* passed and the exception of the store
CallerSees(c) == [op |-> c.op, user |-> c.user, fact |-> c.fact, meta |-> c.meta,
                  err |-> c.err, exception |-> c.exception]

\* C22: of two calls in a row of which one raised at its second store write
\* and the other at its first, the caller sees different outcomes; and of
\* two calls in a row that raised at their second store write for different
\* memory IDs the caller sees different outcomes (what it sees tells the ID
\* to retry with).
C22_partial_write_reported ==
    [][(hist # <<>> /\ hist' # <<>> /\ hist' # hist) =>
          LET a == hist[1]
              b == LastCall
          IN /\ ( \/ PartialWrite(a) /\ FirstWriteFailed(b)
                  \/ PartialWrite(b) /\ FirstWriteFailed(a) )
                   => CallerSees(a) # CallerSees(b)
             /\ (PartialWrite(a) /\ PartialWrite(b) /\ a.mid # b.mid)
                   => CallerSees(a) # CallerSees(b)]_vars

\* C23: a memory whose row is soft-deleted while its vector is still in the
\* index (the vector removal of its delete_memory raised) is kept by no
\* re-check of a retrieve_memories call and is selected by no query of a
\* delete_memory call, whoever the user.
C23_partial_delete ==
    [][\A p \in Procs, id \in DOMAIN rows :
          (rows[id].is_deleted /\ id \in DOMAIN vec) =>
             /\ (pc[p] = "ret_check" /\ pc'[p] \in {"ret_check", "ret_return"})
                   => \A k \in 1..Len(loc'[p].res) : loc'[p].res[k].id # id
             /\ (pc[p] = "del_query" /\ pc'[p] = "del_soft")
                   => loc'[p].mid # id]_vars

\* C24: when a store call of add_memory, add_memories_batch, delete_memory
\* or retrieve_memories raises, the first one included, the call raises to
\* its caller: it returns no ID, no True or False and no list.
C24_no_swallowed_errors ==
    [][\A p \in Procs :
          ( \/ StoreFailure(p)
            \/ \E op \in {"add", "delete", "retrieve"}, u \in Users,
                  f \in RacingFacts : FirstCallRaises(p, op, u, f) )
          => /\ hist' # <<>>
             /\ LastCall.err /\ ~LastCall.ok
             /\ LastCall.exception \in {"metadata_store", "vector_store"}
             /\ LastCall.op \in {"add", "add_batch", "delete", "retrieve"}
             /\ pc'[p] = "idle"]_vars

\* a call raised at a store call it made after an earlier store call of its
\* own had returned
C24_witness ==
    /\ failed /\ AllIdle
    /\ hist # <<>> /\ hist[1].err
    /\ hist[1].at \in {"add_vec", "batch_vec", "del_vec", "ret_check"}

\* C25: between the calls of a serial caller, every list
\* get_active_memories(u) can return holds exactly the IDs of u's rows with
\* is_deleted = false, each once, and of two of them the one added later
\* (the IDs are handed out in the order of the adds) comes first.
C25_active_order ==
    AllIdle =>
       \A u \in Users : \A a \in get_active_memories(rows, u) :
          /\ Ids(a) = {i \in DOMAIN rows :
                          rows[i].user_id = u /\ rows[i].is_deleted = FALSE}
          /\ \A i, j \in 1..Len(a) : i # j => a[i] # a[j]
          /\ \A i, j \in 1..Len(a) : i < j => a[i] > a[j]

\* for every user u, total_memories of get_memory_stats(u) is the number of
\* rows of u and of no other user, it is active_memories + deleted_memories,
\* and active_memories is the length of every list get_active_memories(u)
\* can return
StatsConsistent(r) ==
    \A u \in Users :
       LET stats == get_memory_stats(r, u)
       IN /\ stats.total_memories
               = Cardinality({i \in DOMAIN r : r[i].user_id = u})
          /\ stats.total_memories
               = stats.active_memories + stats.deleted_memories
          /\ \A a \in get_active_memories(r, u) : stats.active_memories = Len(a)

\* C26: the statistics are consistent for the empty table and for the table
\* every step that writes it leaves (the statistics read nothing else), and
\* no step makes total_memories of a user smaller.
C26_stats_consistency ==
    [][ /\ rows = EmptyMap => StatsConsistent(rows)
        /\ rows' # rows =>
              /\ StatsConsistent(rows')
              /\ \A u \in Users :
                    get_memory_stats(rows', u).total_memories
                      >= get_memory_stats(rows, u).total_memories ]_vars

\* a user has an active and a deleted memory while the other user has a
\* memory too
C26_witness ==
    \E u, w \in Users :
       /\ u # w
       /\ get_memory_stats(rows, u).active_memories >= 1
       /\ get_memory_stats(rows, u).deleted_memories >= 1
       /\ get_memory_stats(rows, w).total_memories >= 1

\* the reply of the provider is malformed: the completion raises, there is
\* no content, the content is not JSON, or it is JSON that is not an array
Malformed(completion) ==
    \/ completion.raises
    \/ completion.content.kind # "json"
    \/ completion.content.value.type # "list"

\* C27: whenever the provider's outcome is malformed, extract_facts(text)
\* and extract_deletion_facts(text) return the list [text] and do not raise.
C27_extractor_fallback ==
    [][\A text \in Messages :
          (Malformed(host.completion)
             /\ (ExtractFacts(text) \/ ExtractDeletionFacts(text)))
          => /\ ~hist'[1].err
             /\ hist'[1].facts = <<text>>]_vars

\* a deletion-fact extraction fell back to the message while the provider
\* answers with JSON that is no array
C27_witness ==
    /\ hist # <<>> /\ hist[1].op = "extract_deletion_facts"
    /\ hist[1].facts = <<hist[1].fact>>
    /\ Malformed(host.completion) /\ ~host.completion.raises
    /\ host.completion.content.kind = "json"

\* C28: when process_message(u, message, "add") returns after storing its
\* k >= 1 extracted facts, success is True and memory_ids holds k pairwise
\* distinct IDs, the i-th being a row of u with is_deleted = false, the i-th
\* fact as content and a vector in the index; when no fact was extracted,
\* success is False, memory_ids is empty and both stores are as they were.
C28_message_add ==
    [][\A p \in Procs :
          /\ ( /\ loc[p].op = "process_add"
               /\ pc[p] = "batch_vec" /\ pc'[p] = "idle" )
             => LET c == LastCall
                    k == Len(c.facts)
                IN /\ c.op = "process_add" /\ c.ok /\ ~c.err
                   /\ k >= 1 /\ Len(c.ids) = k
                   /\ \A i, j \in 1..k : i # j => c.ids[i] # c.ids[j]
                   /\ \A i \in 1..k :
                         /\ c.ids[i] \in DOMAIN rows' \cap DOMAIN vec'
                         /\ rows'[c.ids[i]].user_id = c.user
                         /\ rows'[c.ids[i]].is_deleted = FALSE
                         /\ rows'[c.ids[i]].content = c.facts[i]
          /\ \A u \in Users, m \in MetaChoices(1..MaxIds) :
                ProcessAddStart(p, u, <<>>, m)
                => /\ ~LastCall.ok /\ ~LastCall.err
                   /\ LastCall.ids = <<>> /\ LastCall.facts = <<>>
                   /\ rows' = rows /\ vec' = vec]_vars

\* a message with two different facts was added
C28_witness ==
    /\ AllIdle /\ hist # <<>>
    /\ hist[1].op = "process_add" /\ hist[1].ok
    /\ Len(hist[1].facts) = 2 /\ hist[1].facts[1] # hist[1].facts[2]
    /\ Len(hist[1].ids) = 2

\* C29: when process_message(u, message, "delete") returns after going
\* through its k >= 1 deletion facts, success is True, deleted_count is
\* between 0 and k, u has deleted_count fewer active memories than when the
\* call started, and for a user who had none deleted_count is 0; the call
\* does not raise.
C29_message_delete ==
    [][\A p \in Procs :
          ( /\ loc[p].op = "process_delete"
            /\ pc[p] # "idle" /\ pc'[p] = "idle" )
          => LET c == LastCall
             IN /\ c.op = "process_delete" /\ c.ok /\ ~c.err
                /\ c.count \in 0..Len(c.facts)
                /\ Cardinality(ActiveSet(rows', c.user))
                     = loc[p].before - c.count
                /\ loc[p].before = 0 => c.count = 0]_vars

\* C30: a call Config.validate() raises ValueError when OPENAI_API_KEY is
\* not in the environment at the time of the call, and returns True when it
\* is there with a non-empty value at the time of the call, whatever the
\* environment was when config was imported.
C30_validate_reads_environment ==
    [][Validate =>
          /\ host.environ["OPENAI_API_KEY"] = Unset
                => (hist'[1].err /\ ~hist'[1].ok)
          /\ host.environ["OPENAI_API_KEY"] \notin {Unset, ""}
                => (hist'[1].ok /\ ~hist'[1].err)]_vars

\* C31: while every row belongs to one user u (so that every delete_memory
\* call that got as far as its query was a call for u), no delete_memory
\* call of racing handlers returns True for a memory ID for which another
\* delete_memory call has returned True already.
C31_concurrent_deletes ==
    [][\A p \in Procs :
          ( /\ DeleteVector(p)
            /\ \A i \in DOMAIN rows : rows[i].user_id = loc[p].user )
          => loc[p].mid \notin deletedOK]_vars

\* the outcome tells the caller that the operation failed
ReportsFailure(text) == text \in {ErrorRetrievingMemories, ErrorAnswer}

\* C32: a get_context or query_with_memory call during which a store call or
\* the embedding call raised returns an outcome that reports a failed
\* operation and that is not the outcome for "no relevant memories".
C32_context_failure_reported ==
    \A i \in 1..Len(hist) :
       (hist[i].op \in {"get_context", "query_with_memory"}
          /\ hist[i].at # "return")
       => /\ ReportsFailure(hist[i].text)
          /\ hist[i].text # NoRelevantMemories

\* C33: when a store call of process_message(u, message, "add") raises
\* while the j-th of the k extracted facts is being stored, the caller gets
\* the exception and no IDs, neither store is changed by the failure (no
\* rollback), and the memories of the first j-1 facts are rows of u with
\* is_deleted = false whose vectors are in the index.
C33_multi_fact_add_not_atomic ==
    [][\A p \in Procs :
          (loc[p].op = "process_add" /\ StoreFailure(p))
          => LET c == LastCall
                 j == Len(loc[p].extracted) - Len(loc[p].facts) + 1
             IN /\ c.op = "process_add" /\ c.err /\ ~c.ok /\ c.ids = <<>>
                /\ rows' = rows /\ vec' = vec
                /\ \A i \in 1..(j - 1) :
                      LET id == loc[p].memory_ids[i]
                      IN /\ id \in DOMAIN rows' \cap DOMAIN vec'
                         /\ rows'[id].user_id = c.user
                         /\ rows'[id].is_deleted = FALSE
                         /\ rows'[id].content = loc[p].extracted[i]
                         /\ vec'[id].embedding =
                               generate_embedding(loc[p].extracted[i])]_vars

\* the vector write of the second of two different facts of a message
\* raised: its ID is 2, so the first fact was stored under ID 1
C33_witness ==
    /\ AllIdle /\ hist # <<>>
    /\ hist[1].op = "process_add" /\ hist[1].err
    /\ hist[1].at = "batch_vec" /\ hist[1].mid = 2
    /\ hist[1].facts = <<Shram, Magnet>>
    /\ 2 \in DOMAIN rows /\ rows[2].content = Magnet
    /\ 1 \in DOMAIN vec /\ 2 \notin DOMAIN vec

\* C35: process_message with an action other than "add" and "delete"
\* raises ValueError and changes nothing: no row, no vector, no ID taken, no
\* call of the provider, and the handler is idle again.
C35_invalid_action ==
    [][\A p \in Procs, u \in Users, action \in InvalidActions :
          ProcessInvalidAction(p, u, action)
          => /\ pc'[p] = "idle" /\ hist' # <<>>
             /\ LastCall.err /\ LastCall.exception = "ValueError"
             /\ LastCall.ids = <<>>
             /\ rows' = rows /\ vec' = vec /\ nextId' = nextId
             /\ host' = host /\ failed' = failed]_vars

\* a call with an unknown action raised after memories had been stored
C35_witness ==
    /\ AllIdle /\ hist # <<>>
    /\ hist[1].op = "process_message" /\ hist[1].exception = "ValueError"
    /\ DOMAIN vec # {}

\* the rows and the vectors of the users other than u
OthersRows(r, u) == [i \in {k \in DOMAIN r : r[k].user_id # u} |-> r[i]]

OthersVectors(r, v, u) ==
    [i \in {k \in DOMAIN v : k \in DOMAIN r /\ r[k].user_id # u} |-> v[i]]

\* u has no active memory, none of u's IDs is in the vector index and all of
\* u's rows are counted as deleted
ResetDone(r, v, u) ==
    /\ ActiveSet(r, u) = {}
    /\ \A id \in DOMAIN r : r[id].user_id = u => id \notin DOMAIN v
    /\ get_memory_stats(r, u).deleted_memories
          = get_memory_stats(r, u).total_memories

\* C34: every step of a reset_user_memories(u) call of a serial caller keeps
\* every metadata row in the table and changes no row and no vector of
\* another user, and when the call returns True u has no active memory, none
\* of u's IDs is in the vector index and u's deleted count is u's total.
C34_reset_frame ==
    [][\A p \in Procs :
          /\ (ResetSoft(p) \/ ResetVector(p))
             => /\ DOMAIN rows' = DOMAIN rows
                /\ OthersRows(rows', loc[p].user) = OthersRows(rows, loc[p].user)
                /\ OthersVectors(rows', vec', loc[p].user)
                     = OthersVectors(rows, vec, loc[p].user)
          /\ (ResetVector(p) /\ pc'[p] = "idle")
             => ResetDone(rows', vec', loc[p].user)
          /\ \A u \in Users :
                (ResetGetMemories(p, u) /\ pc'[p] = "idle")
                => (rows' = rows /\ vec' = vec /\ ResetDone(rows', vec', u))]_vars

\* C36: get_user_memories(u, limit) returns IDs of active rows of u only,
\* each once, most recently created first; when a limit is supplied, 0
\* included, the list has at most limit elements, and with no limit it holds
\* all active memories of u.
C36_user_memories_limit ==
    [][\A p \in Procs, u \in Users, limit \in Limits :
          GetUserMemories(p, u, limit)
          => LET a == LastCall.ids
             IN /\ Ids(a) \subseteq ActiveSet(rows, u)
                /\ \A i, j \in 1..Len(a) :
                      i < j => /\ a[i] # a[j]
                               /\ rows[a[i]].created_at >= rows[a[j]].created_at
                /\ \A k \in limit : Len(a) <= k
                /\ limit = NoLimit => Ids(a) = ActiveSet(rows, u)]_vars

C38_initialize_storage_repeatable ==
    [][( /\ hist # <<>> /\ hist[1].op = "initialize_storage" /\ hist[1].ok
         /\ hist' # hist /\ LastCall.op = "initialize_storage" )
       => LastCall.ok]_vars

====
